---- MODULE Spec2Model ----
(***************************************************************************)
(* The node lifecycle manager of codex-rust-bindings: CodexNode handles    *)
(* (src/node/lifecycle.rs), the feature callers built on them              *)
(* (src/download/basic.rs), the global call serializer and the callback    *)
(* futures they use, and the native engine they call.                      *)
(*                                                                         *)
(* A logical task runs on an executor thread.  A task that is inside a     *)
(* synchronous call (a mutex lock(), a native call, a blocking wait())     *)
(* occupies its thread; a task suspended at an `.await` does not.          *)
(***************************************************************************)
EXTENDS Integers, FiniteSets, Sequences, TLC

\* Number of contexts the native engine hands out in one run.
MaxNodes == 2

\* Number of operations the tasks call in one run.
MaxCalls == 3

\* Number of progress notifications the engine emits for one call.
MaxProgress == 2

\* Number of filler characters appended to a peer id under validation.
MaxPad == 101

\* Number of addresses in a list under validation.
MaxAddrs == 2

\* Number of peers connect_to_multiple is called with.
MaxPeers == 2

\* The logical tasks, and the executor thread each one is scheduled on:
\* tasks 1 and 2 share one thread (a current-thread runtime), task 3 has
\* a thread of its own.
Tasks == {1, 2, 3}

Executor(t) == IF t = 3 THEN 2 ELSE 1

\* ptr::null_mut(), and "no handle" / "lock free".
Null == 0

Cells == 1..MaxNodes

\* The introspection getters of CodexNode.  revision, repo and spr have the
\* body of version with another native function; two getters stand for the five.
Getters == {"version", "peer_id"}

\* Operations a task can call.
Ops == {"new", "start", "start_async", "stop", "stop_async", "destroy",
        "is_started", "drop", "download_chunk"} \cup Getters

\* The feature callers with the shape of download_chunk: validate the
\* arguments, create a future, convert the strings, call the engine with
\* node.ctx(), release the strings, check the status, await the future.
Features == {"download_init", "download_cancel", "fetch", "delete", "exists",
             "connect"}

\* The feature callers whose only validated argument is a cid.
CidOps == {"download_chunk", "download_cancel", "fetch", "delete", "exists"}

\* Strings are sequences of characters.  The cids a caller passes: the
\* empty string and a non-empty one.
Cids == {<<>>, <<"c">>}

\* The peer ids connect is called with.
ConnectPeerIds == {<<>>, <<"p">>}

\* The address lists connect is called with: none, one or two addresses.
AddressLists == {<<>>, << <<"/">> >>, << <<"/">>, <<"/">> >>}

\* Payloads the engine's callback can carry for a getter.
Vals == {"a", "b"}

\* What a progress notification can carry: a chunk of bytes, or no chunk.
Chunks == {"a", "nil"}

\* The same with two different chunks of bytes.
TwoChunks == {"a", "b", "nil"}

VARIABLES
  pc,        \* pc[t]: where task t is inside its current operation
  op,        \* op[t]: the operation task t called last
  result,    \* result[t]: what that operation returned
  value,     \* value[t]: the payload it returned
  handle,    \* handle[t]: the Arc<Mutex<CodexNodeInner>> task t's CodexNode points to
  lineage,   \* lineage[t]: the CodexNode::new() call t's handle descends from (history)
  ctx,       \* ctx[c]: CodexNodeInner.ctx of cell c
  started,   \* started[c]: CodexNodeInner.started of cell c
  refs,      \* refs[c]: Arc::strong_count of cell c
  inner,     \* inner[c]: the task holding the cell's Mutex, or Null
  glock,     \* the task holding the global libcodex lock, or Null
  inNative,  \* inNative[t]: the native function task t is executing, or "none"
  cptr,      \* cptr[t]: the context pointer task t has read / was handed
  bridge,    \* bridge[t]: the CallbackFuture of task t's current call
  sent,      \* sent[t]: what the engine's callback delivered for t's call (history)
  pending,   \* accepted native calls whose callback the engine has not fired yet
  nextCtx,   \* the next context the engine hands out
  calls,     \* the number of operations called so far
  destroyed, \* destroyed[c]: how often codex_destroy was called on context c (history)
  fired,     \* fired[t]: terminal callbacks that reached t's future: 0, 1, 2 = more (history)
  writes,    \* writes[t]: how often the result slot of t's future was written (history)
  notified,  \* notified[t]: the progress payloads the engine emitted for t's call (history)
  handled,   \* handled[t]: the payloads t's progress callback was invoked with (history)
  chunk,     \* chunk[t]: chunk_data, the buffer download_chunk's progress callback fills
  arg,       \* arg[t]: the arguments task t passed to its current operation
  bufs,      \* bufs[t]: per buffer t's operation got from string_to_c_string, its releases
  trans,     \* trans[c]: the start / stop calls that returned Ok on cell c (history)
  results    \* results[t]: the `results` vector of connect_to_multiple

\* What the history variables, the chunk buffer, the arguments and the native
\* buffers record.
hist == <<destroyed, fired, writes, notified, handled, chunk, arg, bufs, trans,
                 results>>

\* hist without the native buffers, and hist without the transitions.
histButBufs ==
  <<destroyed, fired, writes, notified, handled, chunk, arg, trans, results>>

histButTrans ==
  <<destroyed, fired, writes, notified, handled, chunk, arg, bufs, results>>

vars == <<pc, op, result, value, handle, lineage, ctx, started, refs, inner,
          glock, inNative, cptr, bridge, sent, pending, nextCtx, calls, hist>>

NoBridge == [st |-> "none", val |-> "none"]

Unresolved == [st |-> "pending", val |-> "none"]

\* Faulty variant: every resolution overwrites the result slot.
ResolveOverwrite(b, r) == r

\* CallbackFuture: the trampoline's resolution writes the result slot once; a
\* later resolution changes nothing.
Resolve(b, r) == IF b.st = "pending" THEN r ELSE b

\* CallbackFuture: wait() and .await return once a terminal status is stored.
Resolved(t) == bridge[t].st \in {"ok", "fail"}

\* with_libcodex_lock: the closure runs holding the process-wide lock.
LibcodexLock(t) == glock = Null /\ glock' = t

\* with_libcodex_lock returns: the lock is released.
LibcodexUnlock == glock' = Null

\* Faulty variant: lock() never waits.
InnerFreeAlways(c) == TRUE

\* self.inner.lock() returns once no other task holds the handle's Mutex.
InnerFree(c) == inner[c] = Null

\* The arguments of an operation that takes none.
NoArg ==
  [cid |-> <<>>, peer_id |-> <<>>, addresses |-> <<>>, options |-> TRUE,
   peers |-> <<>>]

\* No native buffer was allocated.
NoBufs == [b \in {} |-> 0]

\* string_to_c_string: each buffer of S is allocated, not yet released.
Allocate(m, S) == [b \in DOMAIN m \cup S |-> IF b \in S THEN 0 ELSE m[b]]

\* free_c_string is called once on each buffer of S.
Release(m, S) == [b \in DOMAIN m |-> IF b \in S THEN m[b] + 1 ELSE m[b]]

\* The prefixes validate_peer_id accepts.
ValidPrefixes ==
  { <<"1", "2", "D", "3", "K", "o", "o", "W">>, <<"Q", "m">>,
    <<"b", "a", "f", "y">>, <<"b", "a", "f", "k">> }

\* How the peer ids under validation begin: with nothing, with an accepted
\* prefix, with a part of one, with the wrong case, or with one after
\* another character.
Heads ==
  ValidPrefixes \cup
  { <<>>, <<"1", "2", "D", "3", "K", "o", "o">>, <<"Q">>, <<"b", "a", "f">>,
    <<"q", "m">>, <<"x", "Q", "m">> }

\* h followed by n filler characters.
Pad(h, n) == h \o [i \in 1..n |-> "x"]

\* The peer ids validate_peer_id is called with.
PeerIds == {Pad(h, n) : h \in Heads, n \in 0..MaxPad}

\* The protocol markers validate_addresses looks for.
ValidProtocols ==
  { <<"/", "i", "p", "4">>, <<"/", "i", "p", "6">>,
    <<"/", "d", "n", "s", "4">>, <<"/", "d", "n", "s", "6">>,
    <<"/", "d", "n", "s", "a", "d", "d", "r">>, <<"/", "t", "c", "p">>,
    <<"/", "u", "d", "p">>, <<"/", "q", "u", "i", "c">>, <<"/", "w", "s">>,
    <<"/", "w", "s", "s">>, <<"/", "p", "2", "p">>,
    <<"/", "i", "p", "f", "s">> }

\* The addresses under validation: the empty one, ones without the leading
\* slash (with and without a marker inside), ones with the slash and no
\* marker, a marker alone, and a marker after another segment.
AddressPool ==
  { <<>>, <<"x">>, <<"x", "/", "t", "c", "p">>, <<"/">>, <<"/", "x">>,
    <<"/", "i", "p">>, <<"/", "i", "p", "4">>, <<"/", "w", "s", "s">>,
    <<"/", "x", "/", "t", "c", "p">> }

\* The address lists validate_addresses is called with.
AddressInputs ==
  UNION {[1..n -> AddressPool] : n \in 0..MaxAddrs}

\* The (peer_id, addresses) pairs connect_to_multiple is called with: one
\* connect accepts and one it refuses for its empty peer id.
PeerPairs ==
  { [peer_id |-> <<"p">>, addresses |-> << <<"/">> >>],
    [peer_id |-> <<>>, addresses |-> << <<"/">> >>] }

\* The lists of pairs connect_to_multiple is called with.
PeerLists == UNION {[1..n -> PeerPairs] : n \in 0..MaxPeers}

\* The arguments operation o can be called with.
Args(o) ==
  CASE o \in CidOps -> {[NoArg EXCEPT !.cid = c] : c \in Cids}
    [] o = "download_init" ->
         {[NoArg EXCEPT !.cid = c, !.options = v] : c \in Cids, v \in BOOLEAN}
    [] o = "connect" ->
         {[NoArg EXCEPT !.peer_id = q, !.addresses = a] :
            q \in ConnectPeerIds, a \in AddressLists}
    [] o = "validate_peer_id" -> {[NoArg EXCEPT !.peer_id = q] : q \in PeerIds}
    [] o = "connect_to_multiple" ->
         {[NoArg EXCEPT !.peers = l] : l \in PeerLists}
    [] o = "validate_addresses" ->
         {[NoArg EXCEPT !.addresses = a] : a \in AddressInputs}
    [] OTHER -> {NoArg}

\* Faulty variant: the emptiness check is missing.
IsEmptyNever(s) == FALSE

\* str::is_empty / <[String]>::is_empty
IsEmpty(s) == Len(s) = 0

\* Faulty variant: a non-zero status is not looked at.
RejectedNever(status) == FALSE

\* `if result != 0 { return Err(..) }`
Rejected(status) == status # 0

\* A task inside synchronous code keeps its executor thread.
Occupies(t) == pc[t] \notin {"idle", "await"}

\* The executor thread of t is not running another task.
ThreadFree(t) ==
  \A u \in Tasks \ {t} : Executor(u) = Executor(t) => ~Occupies(u)

Init ==
  /\ pc = [t \in Tasks |-> "idle"]
  /\ op = [t \in Tasks |-> "none"]
  /\ result = [t \in Tasks |-> "none"]
  /\ value = [t \in Tasks |-> "none"]
  /\ handle = [t \in Tasks |-> Null]
  /\ lineage = [t \in Tasks |-> Null]
  /\ ctx = [c \in Cells |-> Null]
  /\ started = [c \in Cells |-> FALSE]
  /\ refs = [c \in Cells |-> 0]
  /\ inner = [c \in Cells |-> Null]
  /\ glock = Null
  /\ inNative = [t \in Tasks |-> "none"]
  /\ cptr = [t \in Tasks |-> Null]
  /\ bridge = [t \in Tasks |-> NoBridge]
  /\ sent = [t \in Tasks |-> NoBridge]
  /\ pending = {}
  /\ nextCtx = 1
  /\ calls = 0
  /\ destroyed = [c \in Cells |-> 0]
  /\ fired = [t \in Tasks |-> 0]
  /\ writes = [t \in Tasks |-> 0]
  /\ notified = [t \in Tasks |-> <<>>]
  /\ handled = [t \in Tasks |-> <<>>]
  /\ chunk = [t \in Tasks |-> <<>>]
  /\ arg = [t \in Tasks |-> NoArg]
  /\ bufs = [t \in Tasks |-> NoBufs]
  /\ trans = [c \in Cells |-> IF started[c] THEN <<"start">> ELSE <<>>]
  /\ results = [t \in Tasks |-> <<>>]

(***************************************************************************)
(* Returning from an operation: the task is idle again, its result is      *)
(* stored and the operation's CallbackFuture is dropped.                   *)
(***************************************************************************)
Finish(t, r, v) ==
  /\ pc' = [pc EXCEPT ![t] = "idle"]
  /\ result' = [result EXCEPT ![t] = r]
  /\ value' = [value EXCEPT ![t] = v]
  /\ bridge' = [bridge EXCEPT ![t] = NoBridge]
  /\ cptr' = [cptr EXCEPT ![t] = Null]

\* The callbacks still to come for calls t has returned from belong to no
\* call of t any more.
Forget(t) ==
  {IF p.by = t /\ p.orphan THEN [p EXCEPT !.by = Null] ELSE p : p \in pending}

\* The first step of each operation.
Entry(o) ==
  CASE o = "new" -> "glock"
    [] o = "destroy" -> "check"
    [] o = "drop" -> "drop"
    [] o \in {"validate_peer_id", "validate_addresses"} -> "validate"
    [] o = "connect_to_multiple" -> "loop"
    [] OTHER -> "lock"

\* Task t calls operation o with some arguments.  new() builds a handle, the
\* validate functions are free functions; every other operation needs a
\* handle.
Call(t, o) ==
  /\ pc[t] = "idle"
  /\ ThreadFree(t)
  /\ calls < MaxCalls
  /\ calls' = calls + 1
  /\ CASE o = "new" -> handle[t] = Null /\ nextCtx <= MaxNodes
       [] o \in {"validate_peer_id", "validate_addresses"} -> TRUE
       [] OTHER -> handle[t] # Null
  /\ pc' = [pc EXCEPT ![t] = Entry(o)]
  /\ op' = [op EXCEPT ![t] = o]
  /\ result' = [result EXCEPT ![t] = "none"]
  /\ value' = [value EXCEPT ![t] = "none"]
  /\ sent' = [sent EXCEPT ![t] = NoBridge]
  /\ pending' = Forget(t)
  /\ fired' = [fired EXCEPT ![t] = 0]
  /\ writes' = [writes EXCEPT ![t] = 0]
  /\ notified' = [notified EXCEPT ![t] = <<>>]
  /\ handled' = [handled EXCEPT ![t] = <<>>]
  /\ chunk' = [chunk EXCEPT ![t] = <<>>]
  /\ \E a \in Args(o) : arg' = [arg EXCEPT ![t] = a]
  /\ bufs' = [bufs EXCEPT ![t] = NoBufs]
  /\ results' = [results EXCEPT ![t] = <<>>]
  /\ UNCHANGED <<handle, lineage, ctx, started, refs, inner, glock, inNative,
                 cptr, bridge, nextCtx, destroyed, trans>>

\* Faulty variant: every call passes the same future.
UserDataShared(t) == 1

\* The user_data token a call passes to the engine: its own future.
UserData(t) == t

\* An accepted call: the engine will fire its callback later.
Accepted(t, fn) == [ud |-> UserData(t), fn |-> fn, by |-> t, orphan |-> FALSE]

\* The engine registers a callback for a call it answers with status 0, and
\* for no other.
Registered(t, fn, status) == IF status = 0 THEN {Accepted(t, fn)} ELSE {}

\* What the terminal callback of native function fn can carry.
Payloads(fn) ==
  CASE fn \in Getters -> Vals
    [] fn = "download_chunk" -> {"done"}
    [] fn = "exists" -> {"true", "false", "x"}
    [] fn = "fetch" -> {"manifest", "x"}
    [] OTHER -> {"none"}

\* The result slot of future b is written by a resolution with r.
Written(b, r) == Resolve(b, r) # b

(***************************************************************************)
(* The engine fires the terminal callback of an accepted call, from its    *)
(* own thread.  The trampoline resolves the future user_data points to; a  *)
(* callback whose future was already dropped finds nothing to resolve.     *)
(***************************************************************************)
EngineCallback(p) ==
  /\ p \in pending
  /\ pending' = pending \ {p}
  /\ \E st \in {"ok", "fail"} : \E v \in Payloads(p.fn) :
       LET r == [st |-> st, val |-> IF st = "ok" THEN v ELSE "none"] IN
       IF p.orphan
         THEN /\ sent' = IF p.by = Null THEN sent ELSE [sent EXCEPT ![p.by] = r]
              /\ UNCHANGED <<bridge, fired, writes>>
         ELSE /\ bridge' = [bridge EXCEPT ![p.ud] = Resolve(@, r)]
              /\ sent' = [sent EXCEPT ![p.by] = r]
              /\ fired' = [fired EXCEPT ![p.ud] = @ + 1]
              /\ writes' = [writes EXCEPT ![p.ud] =
                              IF Written(bridge[p.ud], r) THEN @ + 1 ELSE @]
  /\ UNCHANGED <<pc, op, result, value, handle, lineage, ctx, started, refs,
                 inner, glock, inNative, cptr, nextCtx, calls, destroyed,
                 notified, handled, chunk, arg, bufs, trans,
                 results>>

\* Faulty variant: a progress notification resolves the future.
ProgressResolves(b, c) == Resolve(b, [st |-> "ok", val |-> c])

\* The trampoline on a progress status: the future is not resolved.
Progress(b, c) == b

\* Faulty variant: every chunk is appended to the buffer.
OnProgressAppend(data, c) == IF c = "nil" THEN data ELSE Append(data, c)

\* download_chunk's progress callback: a chunk replaces the stored one.
OnProgress(data, c) == IF c = "nil" THEN data ELSE <<c>>

(***************************************************************************)
(* The engine emits a progress notification for a download_chunk call it   *)
(* accepted; the trampoline invokes the future's progress callback.        *)
(***************************************************************************)
EngineProgressOf(p, S) ==
  /\ p \in pending
  /\ p.fn = "download_chunk" /\ ~p.orphan
  /\ Len(notified[p.by]) < MaxProgress
  /\ \E c \in S :
       /\ notified' = [notified EXCEPT ![p.by] = Append(@, c)]
       /\ handled' = [handled EXCEPT ![p.ud] = Append(@, c)]
       /\ chunk' = [chunk EXCEPT ![p.ud] = OnProgress(@, c)]
       /\ bridge' = [bridge EXCEPT ![p.ud] = Progress(@, c)]
       /\ writes' = [writes EXCEPT ![p.ud] =
                       IF Progress(bridge[p.ud], c) # bridge[p.ud]
                         THEN @ + 1 ELSE @]
  /\ UNCHANGED <<pc, op, result, value, handle, lineage, ctx, started, refs,
                 inner, glock, inNative, cptr, sent, pending, nextCtx, calls,
                 destroyed, fired, arg, bufs, trans,
                 results>>

EngineProgress(p) == EngineProgressOf(p, Chunks)

(***************************************************************************)
(* CodexNode::new                                                          *)
(***************************************************************************)
\* Faulty variant: the handle is built as started.
NewStartedTrue == TRUE

\* The started flag a new handle is built with.
NewStarted == FALSE

\* with_libcodex_lock: take the global lock; config.to_json()?; the JSON is
\* converted with string_to_c_string; codex_new(..) is called.
NewBegin(t) ==
  /\ UNCHANGED <<calls, histButBufs>>
  /\ pc[t] = "glock" /\ op[t] = "new"
  /\ \E cfgOk \in BOOLEAN :
       IF cfgOk
         THEN /\ LibcodexLock(t)
              /\ bufs' = [bufs EXCEPT ![t] = Allocate(@, {<<"config", 0>>})]
              /\ inNative' = [inNative EXCEPT ![t] = "new"]
              /\ bridge' = [bridge EXCEPT ![t] = Unresolved]
              /\ pc' = [pc EXCEPT ![t] = "native"]
              /\ UNCHANGED <<result, value, cptr>>
         ELSE /\ glock = Null
              /\ Finish(t, "config_error", "none")
              /\ UNCHANGED <<glock, inNative, bufs>>
  /\ UNCHANGED <<op, handle, lineage, ctx, started, refs, inner, sent,
                 pending, nextCtx>>

\* codex_new returns: a null context, or a fresh one (its callback pending).
\* The JSON buffer is released before the pointer is looked at.
NewNative(t) ==
  /\ UNCHANGED <<calls, histButBufs>>
  /\ pc[t] = "native" /\ op[t] = "new"
  /\ bufs' = [bufs EXCEPT ![t] = Release(@, {<<"config", 0>>})]
  /\ inNative' = [inNative EXCEPT ![t] = "none"]
  /\ \E isNull \in (IF nextCtx <= MaxNodes THEN BOOLEAN ELSE {TRUE}) :
       IF isNull
         THEN /\ Finish(t, "call_rejected", "none")
              /\ LibcodexUnlock
              /\ UNCHANGED <<pending, nextCtx>>
         ELSE /\ cptr' = [cptr EXCEPT ![t] = nextCtx]
              /\ nextCtx' = nextCtx + 1
              /\ pending' = pending \cup {Accepted(t, "new")}
              /\ pc' = [pc EXCEPT ![t] = "wait"]
              /\ UNCHANGED <<result, value, bridge, glock>>
  /\ UNCHANGED <<op, handle, lineage, ctx, started, refs, inner, sent>>

\* future.wait()? inside the closure, then the handle is built and the
\* global lock released.
NewWait(t) ==
  /\ UNCHANGED <<calls, hist>>
  /\ pc[t] = "wait" /\ op[t] = "new"
  /\ Resolved(t)
  /\ LibcodexUnlock
  /\ IF bridge[t].st = "ok"
       THEN /\ Finish(t, "ok", "none")
            /\ handle' = [handle EXCEPT ![t] = cptr[t]]
            /\ lineage' = [lineage EXCEPT ![t] = cptr[t]]
            /\ ctx' = [ctx EXCEPT ![cptr[t]] = cptr[t]]
            /\ started' = [started EXCEPT ![cptr[t]] = NewStarted]
            /\ refs' = [refs EXCEPT ![cptr[t]] = 1]
       ELSE /\ Finish(t, "native_failure", "none")
            /\ UNCHANGED <<handle, lineage, ctx, started, refs>>
  /\ UNCHANGED <<op, inner, inNative, sent, pending, nextCtx>>

(***************************************************************************)
(* CodexNode::start and CodexNode::start_async                             *)
(***************************************************************************)
\* Faulty variant: the state check of start is missing.
StartRejectsNever(s) == FALSE

\* `if inner.started { return Err(..) }`
StartRejects(s) == s

\* self.inner.lock(); the state check; codex_start(inner.ctx, ..) is called.
StartBegin(t) ==
  /\ UNCHANGED <<calls, hist>>
  /\ pc[t] = "lock" /\ op[t] \in {"start", "start_async"}
  /\ InnerFree(handle[t])
  /\ IF StartRejects(started[handle[t]])
       THEN /\ Finish(t, "state_error", "none")
            /\ UNCHANGED <<inner, inNative>>
       ELSE /\ inner' = [inner EXCEPT ![handle[t]] = t]
            /\ inNative' = [inNative EXCEPT ![t] = "start"]
            /\ cptr' = [cptr EXCEPT ![t] = ctx[handle[t]]]
            /\ bridge' = [bridge EXCEPT ![t] = Unresolved]
            /\ pc' = [pc EXCEPT ![t] = "native"]
            /\ UNCHANGED <<result, value>>
  /\ UNCHANGED <<op, handle, lineage, ctx, started, refs, glock, sent,
                 pending, nextCtx>>

\* codex_start returns: non-zero is an error; zero leads to the wait.
StartNative(t) ==
  /\ UNCHANGED <<calls, hist>>
  /\ pc[t] = "native" /\ op[t] \in {"start", "start_async"}
  /\ inNative' = [inNative EXCEPT ![t] = "none"]
  /\ \E status \in {0, 1} :
       IF Rejected(status)
         THEN /\ Finish(t, "call_rejected", "none")
              /\ inner' = [inner EXCEPT ![handle[t]] = Null]
              /\ UNCHANGED pending
         ELSE /\ pending' = pending \cup Registered(t, "start", status)
              /\ pc' = [pc EXCEPT ![t] =
                          IF op[t] = "start" THEN "wait" ELSE "await"]
              /\ UNCHANGED <<result, value, bridge, cptr, inner>>
  /\ UNCHANGED <<op, handle, lineage, ctx, started, refs, glock, sent,
                 nextCtx>>

\* The tail of start / start_async once the future is resolved.
StartDone(t) ==
  /\ UNCHANGED <<calls, histButTrans>>
  /\ Resolved(t)
  /\ inner' = [inner EXCEPT ![handle[t]] = Null]
  /\ IF bridge[t].st = "ok"
       THEN /\ started' = [started EXCEPT ![handle[t]] = TRUE]
            /\ trans' = [trans EXCEPT ![handle[t]] = Append(@, "start")]
            /\ Finish(t, "ok", "none")
       ELSE /\ Finish(t, "native_failure", "none")
            /\ UNCHANGED <<started, trans>>
  /\ UNCHANGED <<op, handle, lineage, ctx, refs, glock, inNative, sent,
                 pending, nextCtx>>

\* future.wait()?: the thread blocks until the callback has fired.
StartWait(t) ==
  /\ pc[t] = "wait" /\ op[t] = "start"
  /\ StartDone(t)

\* future.await?: the task is resumed once its executor thread is free.
StartAwait(t) ==
  /\ pc[t] = "await" /\ op[t] = "start_async"
  /\ ThreadFree(t)
  /\ StartDone(t)

(***************************************************************************)
(* CodexNode::stop and CodexNode::stop_async                               *)
(***************************************************************************)
\* Faulty variant: stop leaves the flag set.
StoppedKept == TRUE

\* `inner.started = false`
Stopped == FALSE

\* Faulty variant: the state check of stop is missing.
StopRejectsNever(s) == FALSE

\* `if !inner.started { return Err(..) }`
StopRejects(s) == ~s

StopBegin(t) ==
  /\ UNCHANGED <<calls, hist>>
  /\ pc[t] = "lock" /\ op[t] \in {"stop", "stop_async"}
  /\ InnerFree(handle[t])
  /\ IF StopRejects(started[handle[t]])
       THEN /\ Finish(t, "state_error", "none")
            /\ UNCHANGED <<inner, inNative>>
       ELSE /\ inner' = [inner EXCEPT ![handle[t]] = t]
            /\ inNative' = [inNative EXCEPT ![t] = "stop"]
            /\ cptr' = [cptr EXCEPT ![t] = ctx[handle[t]]]
            /\ bridge' = [bridge EXCEPT ![t] = Unresolved]
            /\ pc' = [pc EXCEPT ![t] = "native"]
            /\ UNCHANGED <<result, value>>
  /\ UNCHANGED <<op, handle, lineage, ctx, started, refs, glock, sent,
                 pending, nextCtx>>

\* codex_stop returns.  stop() clears the flag and returns at once, dropping
\* its future while the callback is still to come; stop_async() awaits.
StopNative(t) ==
  /\ UNCHANGED <<calls, histButTrans>>
  /\ pc[t] = "native" /\ op[t] \in {"stop", "stop_async"}
  /\ inNative' = [inNative EXCEPT ![t] = "none"]
  /\ \E status \in {0, 1} :
       IF Rejected(status)
         THEN /\ Finish(t, "call_rejected", "none")
              /\ inner' = [inner EXCEPT ![handle[t]] = Null]
              /\ UNCHANGED <<pending, started, trans>>
         ELSE IF op[t] = "stop"
           THEN /\ pending' = pending \cup
                       {[p EXCEPT !.orphan = TRUE] :
                          p \in Registered(t, "stop", status)}
                /\ started' = [started EXCEPT ![handle[t]] = Stopped]
                /\ trans' = [trans EXCEPT ![handle[t]] = Append(@, "stop")]
                /\ inner' = [inner EXCEPT ![handle[t]] = Null]
                /\ Finish(t, "ok", "none")
           ELSE /\ pending' = pending \cup Registered(t, "stop", status)
                /\ pc' = [pc EXCEPT ![t] = "await"]
                /\ UNCHANGED <<result, value, bridge, cptr, inner, started,
                               trans>>
  /\ UNCHANGED <<op, handle, lineage, ctx, refs, glock, sent, nextCtx>>

StopAwait(t) ==
  /\ UNCHANGED <<calls, histButTrans>>
  /\ pc[t] = "await" /\ op[t] = "stop_async"
  /\ ThreadFree(t)
  /\ Resolved(t)
  /\ inner' = [inner EXCEPT ![handle[t]] = Null]
  /\ IF bridge[t].st = "ok"
       THEN /\ started' = [started EXCEPT ![handle[t]] = Stopped]
            /\ trans' = [trans EXCEPT ![handle[t]] = Append(@, "stop")]
            /\ Finish(t, "ok", "none")
       ELSE /\ Finish(t, "native_failure", "none")
            /\ UNCHANGED <<started, trans>>
  /\ UNCHANGED <<op, handle, lineage, ctx, refs, glock, inNative, sent,
                 pending, nextCtx>>

(***************************************************************************)
(* The getters: version, revision, repo, spr, peer_id                      *)
(***************************************************************************)
\* Faulty variant: a getter refuses a handle that is not started.
GetterRejectsStopped(s) == ~s

\* A getter looks at no flag between taking the lock and the native call.
GetterRejects(s) == FALSE

\* self.inner.lock(); codex_<getter>(inner.ctx, ..) is called.
GetterBegin(t) ==
  /\ UNCHANGED <<calls, hist>>
  /\ pc[t] = "lock" /\ op[t] \in Getters
  /\ InnerFree(handle[t])
  /\ IF GetterRejects(started[handle[t]])
       THEN /\ Finish(t, "state_error", "none")
            /\ UNCHANGED <<inner, inNative>>
       ELSE /\ inner' = [inner EXCEPT ![handle[t]] = t]
            /\ inNative' = [inNative EXCEPT ![t] = op[t]]
            /\ cptr' = [cptr EXCEPT ![t] = ctx[handle[t]]]
            /\ bridge' = [bridge EXCEPT ![t] = Unresolved]
            /\ pc' = [pc EXCEPT ![t] = "native"]
            /\ UNCHANGED <<result, value>>
  /\ UNCHANGED <<op, handle, lineage, ctx, started, refs, glock, sent,
                 pending, nextCtx>>

GetterNative(t) ==
  /\ UNCHANGED <<calls, hist>>
  /\ pc[t] = "native" /\ op[t] \in Getters
  /\ inNative' = [inNative EXCEPT ![t] = "none"]
  /\ \E status \in {0, 1} :
       IF Rejected(status)
         THEN /\ Finish(t, "call_rejected", "none")
              /\ inner' = [inner EXCEPT ![handle[t]] = Null]
              /\ UNCHANGED pending
         ELSE /\ pending' = pending \cup Registered(t, op[t], status)
              /\ pc' = [pc EXCEPT ![t] = "wait"]
              /\ UNCHANGED <<result, value, bridge, cptr, inner>>
  /\ UNCHANGED <<op, handle, lineage, ctx, started, refs, glock, sent,
                 nextCtx>>

\* Faulty variant: the error of the wait is swallowed.
WaitResultOk(b) == "ok"

\* `future.wait()?`: Ok on a success status, the carried error otherwise.
WaitResult(b) == IF b.st = "ok" THEN "ok" ELSE "native_failure"

\* future.wait()?, holding the handle's lock; the payload is returned.
GetterWait(t) ==
  /\ UNCHANGED <<calls, hist>>
  /\ pc[t] = "wait" /\ op[t] \in Getters
  /\ Resolved(t)
  /\ inner' = [inner EXCEPT ![handle[t]] = Null]
  /\ IF WaitResult(bridge[t]) = "ok"
       THEN Finish(t, "ok", bridge[t].val)
       ELSE Finish(t, "native_failure", "none")
  /\ UNCHANGED <<op, handle, lineage, ctx, started, refs, glock, inNative,
                 sent, pending, nextCtx>>

(***************************************************************************)
(* CodexNode::is_started                                                   *)
(***************************************************************************)
\* The flag is_started() reads through task t's handle.
IsStartedValue(t) == started[handle[t]]

IsStarted(t) ==
  /\ UNCHANGED <<calls, hist>>
  /\ pc[t] = "lock" /\ op[t] = "is_started"
  /\ InnerFree(handle[t])
  /\ Finish(t, "ok", IF IsStartedValue(t) THEN "true" ELSE "false")
  /\ UNCHANGED <<op, handle, lineage, ctx, started, refs, inner, glock,
                 inNative, sent, pending, nextCtx>>

(***************************************************************************)
(* #[derive(Clone)]: task t clones its CodexNode and hands the clone to    *)
(* task u.                                                                 *)
(***************************************************************************)
\* Faulty variant: the clone gets a cell of its own.
CloneRefCopy(c) == IF c = 1 THEN 2 ELSE 1

\* Arc::clone: the clone points to the same cell.
CloneRef(c) == c

Clone(t, u) ==
  /\ UNCHANGED <<calls, hist>>
  /\ t # u
  /\ pc[t] = "idle" /\ ThreadFree(t)
  /\ pc[u] = "idle"
  /\ handle[t] # Null /\ handle[u] = Null
  /\ handle' = [handle EXCEPT ![u] = CloneRef(handle[t])]
  /\ lineage' = [lineage EXCEPT ![u] = lineage[t]]
  /\ refs' = [refs EXCEPT ![handle[t]] = @ + 1]
  /\ UNCHANGED <<pc, op, result, value, ctx, started, inner, glock, inNative,
                 cptr, bridge, sent, pending, nextCtx>>

(***************************************************************************)
(* CodexNode::destroy(self)                                                *)
(***************************************************************************)
\* Faulty variant: the sole-owner check is missing.
DestroySharedNever(count) == FALSE

\* `if Arc::strong_count(&self.inner) != 1 { return Err(..) }`
DestroyShared(count) == count # 1

\* `if inner.started { return Err(..) }`
DestroyStarted(s) == s

\* The sole-owner check.  Every return of destroy() drops self.
DestroyCheck(t) ==
  /\ UNCHANGED <<calls, hist>>
  /\ pc[t] = "check" /\ op[t] = "destroy"
  /\ IF DestroyShared(refs[handle[t]])
       THEN /\ pc' = [pc EXCEPT ![t] = "drop"]
            /\ result' = [result EXCEPT ![t] = "state_error"]
            /\ value' = [value EXCEPT ![t] = "Cannot destroy: multiple references exist"]
       ELSE /\ pc' = [pc EXCEPT ![t] = "lock"]
            /\ UNCHANGED <<result, value>>
  /\ UNCHANGED <<op, handle, lineage, ctx, started, refs, inner, glock,
                 inNative, cptr, bridge, sent, pending, nextCtx>>

\* self.inner.lock(); the started check; codex_close(inner.ctx, ..) is called.
DestroyBegin(t) ==
  /\ UNCHANGED <<calls, hist>>
  /\ pc[t] = "lock" /\ op[t] = "destroy"
  /\ InnerFree(handle[t])
  /\ IF DestroyStarted(started[handle[t]])
       THEN /\ pc' = [pc EXCEPT ![t] = "drop"]
            /\ result' = [result EXCEPT ![t] = "state_error"]
            /\ value' = [value EXCEPT ![t] = "Node is still started"]
            /\ UNCHANGED <<inner, inNative, cptr, bridge>>
       ELSE /\ inner' = [inner EXCEPT ![handle[t]] = t]
            /\ inNative' = [inNative EXCEPT ![t] = "close"]
            /\ cptr' = [cptr EXCEPT ![t] = ctx[handle[t]]]
            /\ bridge' = [bridge EXCEPT ![t] = Unresolved]
            /\ pc' = [pc EXCEPT ![t] = "native"]
            /\ UNCHANGED <<result, value>>
  /\ UNCHANGED <<op, handle, lineage, ctx, started, refs, glock, sent,
                 pending, nextCtx>>

\* codex_close returns.
DestroyCloseNative(t) ==
  /\ UNCHANGED <<calls, hist>>
  /\ pc[t] = "native" /\ op[t] = "destroy"
  /\ inNative' = [inNative EXCEPT ![t] = "none"]
  /\ \E status \in {0, 1} :
       IF Rejected(status)
         THEN /\ pc' = [pc EXCEPT ![t] = "drop"]
              /\ result' = [result EXCEPT ![t] = "call_rejected"]
              /\ bridge' = [bridge EXCEPT ![t] = NoBridge]
              /\ inner' = [inner EXCEPT ![handle[t]] = Null]
              /\ UNCHANGED pending
         ELSE /\ pending' = pending \cup Registered(t, "close", status)
              /\ pc' = [pc EXCEPT ![t] = "wait"]
              /\ UNCHANGED <<result, bridge, inner>>
  /\ UNCHANGED <<op, value, handle, lineage, ctx, started, refs, glock, cptr,
                 sent, nextCtx>>

\* Faulty variant: the result of the wait is not looked at.
CloseSucceededAlways(b) == TRUE

\* `future.wait()?` of destroy: an error of the close callback is returned.
CloseSucceeded(b) == b.st = "ok"

\* codex_destroy is called on context c.
DestroyIssued(c) == destroyed' = [destroyed EXCEPT ![c] = @ + 1]

\* future.wait()?; on success codex_destroy(inner.ctx, None, null) is called.
DestroyWait(t) ==
  /\ UNCHANGED <<calls, fired, writes, notified, handled, chunk, arg, bufs, trans,
                 results>>
  /\ pc[t] = "wait" /\ op[t] = "destroy"
  /\ Resolved(t)
  /\ IF CloseSucceeded(bridge[t])
       THEN /\ inNative' = [inNative EXCEPT ![t] = "destroy"]
            /\ DestroyIssued(ctx[handle[t]])
            /\ pc' = [pc EXCEPT ![t] = "destroy_native"]
            /\ UNCHANGED <<result, inner, bridge>>
       ELSE /\ pc' = [pc EXCEPT ![t] = "drop"]
            /\ result' = [result EXCEPT ![t] = "native_failure"]
            /\ bridge' = [bridge EXCEPT ![t] = NoBridge]
            /\ inner' = [inner EXCEPT ![handle[t]] = Null]
            /\ UNCHANGED <<inNative, destroyed>>
  /\ UNCHANGED <<op, value, handle, lineage, ctx, started, refs, glock, cptr,
                 sent, pending, nextCtx>>

\* Faulty variant: the pointer is kept after the context was destroyed.
AfterDestroyKept(c) == c

\* `inner.ctx = ptr::null_mut()` after codex_destroy.
AfterDestroy(c) == Null

\* codex_destroy returns (its value ignored); inner.ctx = null; Ok(()).
DestroyNative(t) ==
  /\ UNCHANGED <<calls, hist>>
  /\ pc[t] = "destroy_native" /\ op[t] = "destroy"
  /\ inNative' = [inNative EXCEPT ![t] = "none"]
  /\ ctx' = [ctx EXCEPT ![handle[t]] = AfterDestroy(@)]
  /\ inner' = [inner EXCEPT ![handle[t]] = Null]
  /\ bridge' = [bridge EXCEPT ![t] = NoBridge]
  /\ result' = [result EXCEPT ![t] = "ok"]
  /\ pc' = [pc EXCEPT ![t] = "drop"]
  /\ UNCHANGED <<op, value, handle, lineage, started, refs, glock, cptr,
                 sent, pending, nextCtx>>

(***************************************************************************)
(* impl Drop for CodexNode                                                 *)
(***************************************************************************)
\* Faulty variant: every drop runs the cleanup.
DropIsLastAlways(count) == TRUE

\* `if Arc::strong_count(&self.inner) == 1`
DropIsLast(count) == count = 1

DropCheck(t) ==
  /\ UNCHANGED <<calls, hist>>
  /\ pc[t] = "drop"
  /\ pc' = [pc EXCEPT ![t] =
              IF DropIsLast(refs[handle[t]]) THEN "drop_lock" ELSE "drop_release"]
  /\ UNCHANGED <<op, result, value, handle, lineage, ctx, started, refs,
                 inner, glock, inNative, cptr, bridge, sent, pending, nextCtx>>

\* Faulty variant: the cleanup never stops the node.
DropStopsNever(s) == FALSE

\* `if !inner.ctx.is_null() && inner.started`
DropStops(s) == s

\* self.inner.lock(), then the first native call of the cleanup, if any.
DropBegin(t) ==
  /\ UNCHANGED <<calls, fired, writes, notified, handled, chunk, arg, bufs, trans,
                 results>>
  /\ pc[t] = "drop_lock"
  /\ InnerFree(handle[t])
  /\ IF ctx[handle[t]] # Null
       THEN /\ inner' = [inner EXCEPT ![handle[t]] = t]
            /\ cptr' = [cptr EXCEPT ![t] = ctx[handle[t]]]
            /\ IF DropStops(started[handle[t]])
                 THEN /\ inNative' = [inNative EXCEPT ![t] = "stop"]
                      /\ pc' = [pc EXCEPT ![t] = "drop_stop"]
                      /\ UNCHANGED destroyed
                 ELSE /\ inNative' = [inNative EXCEPT ![t] = "destroy"]
                      /\ DestroyIssued(ctx[handle[t]])
                      /\ pc' = [pc EXCEPT ![t] = "drop_destroy"]
       ELSE /\ pc' = [pc EXCEPT ![t] = "drop_release"]
            /\ UNCHANGED <<inner, cptr, inNative, destroyed>>
  /\ UNCHANGED <<op, result, value, handle, lineage, ctx, started, refs,
                 glock, bridge, sent, pending, nextCtx>>

\* codex_stop(ctx, None, null) returns, its status dropped; started = false;
\* codex_destroy is called.
DropStopNative(t) ==
  /\ UNCHANGED <<calls, fired, writes, notified, handled, chunk, arg, bufs, trans,
                 results>>
  /\ pc[t] = "drop_stop"
  /\ \E status \in {0, 1, 2} : TRUE
  /\ started' = [started EXCEPT ![handle[t]] = FALSE]
  /\ inNative' = [inNative EXCEPT ![t] = "destroy"]
  /\ DestroyIssued(ctx[handle[t]])
  /\ pc' = [pc EXCEPT ![t] = "drop_destroy"]
  /\ UNCHANGED <<op, result, value, handle, lineage, ctx, refs, inner, glock,
                 cptr, bridge, sent, pending, nextCtx>>

\* codex_destroy(ctx, None, null) returns, its status dropped; ctx = null; the
\* lock is released.
DropDestroyNative(t) ==
  /\ UNCHANGED <<calls, hist>>
  /\ pc[t] = "drop_destroy"
  /\ \E status \in {0, 1, 2} : TRUE
  /\ inNative' = [inNative EXCEPT ![t] = "none"]
  /\ ctx' = [ctx EXCEPT ![handle[t]] = AfterDestroy(@)]
  /\ inner' = [inner EXCEPT ![handle[t]] = Null]
  /\ pc' = [pc EXCEPT ![t] = "drop_release"]
  /\ UNCHANGED <<op, result, value, handle, lineage, started, refs, glock,
                 cptr, bridge, sent, pending, nextCtx>>

\* After Drop::drop the field `inner` is dropped: the count goes down.  What
\* destroy() decided to return is returned.
DropRelease(t) ==
  /\ UNCHANGED <<calls, hist>>
  /\ pc[t] = "drop_release"
  /\ refs' = [refs EXCEPT ![handle[t]] = @ - 1]
  /\ handle' = [handle EXCEPT ![t] = Null]
  /\ lineage' = [lineage EXCEPT ![t] = Null]
  /\ Finish(t, IF op[t] = "drop" THEN "ok" ELSE result[t], value[t])
  /\ UNCHANGED <<op, ctx, started, inner, glock, inNative, sent, pending,
                 nextCtx>>

(***************************************************************************)
(* download_chunk (src/download/basic.rs)                                  *)
(***************************************************************************)
\* The cid check; the future and the cid buffer are created; node.ctx(): the
\* handle's lock is held only to read the pointer.
ChunkCtx(t) ==
  /\ UNCHANGED <<calls, histButBufs>>
  /\ pc[t] = "lock" /\ op[t] = "download_chunk"
  /\ IF IsEmpty(arg[t].cid)
       THEN /\ Finish(t, "invalid_parameter", "none")
            /\ UNCHANGED bufs
       ELSE /\ InnerFree(handle[t])
            /\ bufs' = [bufs EXCEPT ![t] = Allocate(@, {<<"cid", 0>>})]
            /\ cptr' = [cptr EXCEPT ![t] = ctx[handle[t]]]
            /\ bridge' = [bridge EXCEPT ![t] = Unresolved]
            /\ pc' = [pc EXCEPT ![t] = "call"]
            /\ UNCHANGED <<result, value>>
  /\ UNCHANGED <<op, handle, lineage, ctx, started, refs, inner, glock,
                 inNative, sent, pending, nextCtx>>

\* codex_download_chunk(ctx, ..) is called, under no lock.
ChunkCall(t) ==
  /\ UNCHANGED <<calls, hist>>
  /\ pc[t] = "call" /\ op[t] = "download_chunk"
  /\ inNative' = [inNative EXCEPT ![t] = "download_chunk"]
  /\ pc' = [pc EXCEPT ![t] = "native"]
  /\ UNCHANGED <<op, result, value, handle, lineage, ctx, started, refs,
                 inner, glock, cptr, bridge, sent, pending, nextCtx>>

\* codex_download_chunk returns; the cid buffer is released; the status.
ChunkNative(t) ==
  /\ UNCHANGED <<calls, histButBufs>>
  /\ pc[t] = "native" /\ op[t] = "download_chunk"
  /\ bufs' = [bufs EXCEPT ![t] = Release(@, {<<"cid", 0>>})]
  /\ inNative' = [inNative EXCEPT ![t] = "none"]
  /\ \E status \in {0, 1} :
       IF Rejected(status)
         THEN /\ Finish(t, "call_rejected", "none")
              /\ UNCHANGED pending
         ELSE /\ pending' = pending \cup Registered(t, "download_chunk", status)
              /\ pc' = [pc EXCEPT ![t] = "await"]
              /\ UNCHANGED <<result, value, bridge, cptr>>
  /\ UNCHANGED <<op, handle, lineage, ctx, started, refs, inner, glock, sent,
                 nextCtx>>

\* future.await? returns; the buffer's bytes are returned and the future and
\* the callback's buffer are dropped.
ChunkAwait(t) ==
  /\ UNCHANGED <<calls, destroyed, fired, writes, notified, handled, arg,
                 bufs, trans, results>>
  /\ chunk' = [chunk EXCEPT ![t] = <<>>]
  /\ pc[t] = "await" /\ op[t] = "download_chunk"
  /\ ThreadFree(t)
  /\ Resolved(t)
  /\ IF bridge[t].st = "ok"
       THEN Finish(t, "ok", chunk[t])
       ELSE Finish(t, "native_failure", "none")
  /\ UNCHANGED <<op, handle, lineage, ctx, started, refs, inner, glock,
                 inNative, sent, pending, nextCtx>>

(***************************************************************************)
(* download_init, download_cancel (src/download/basic.rs), fetch, delete,  *)
(* exists (src/storage/crud.rs) and connect (src/p2p/connection.rs)        *)
(***************************************************************************)
\* The local validation of the arguments.
Invalid(o, a) ==
  CASE o = "connect" -> IsEmpty(a.peer_id) \/ IsEmpty(a.addresses)
    [] OTHER -> IsEmpty(a.cid)

\* The buffers the operation gets from string_to_c_string.
FeatureBuffers(o, a) ==
  CASE o = "download_init" -> {<<"cid", 0>>, <<"options", 0>>}
    [] o = "connect" ->
         {<<"peer_id", 0>>} \cup {<<"addr", i>> : i \in 1..Len(a.addresses)}
    [] OTHER -> {<<"cid", 0>>}

\* The buffers the operation passes to free_c_string after the native call.
FeatureFreed(o, a) ==
  CASE o = "download_init" -> {<<"cid", 0>>}
    [] o = "connect" ->
         {<<"peer_id", 0>>} \cup {<<"addr", i>> : i \in 1..Len(a.addresses)}
    [] OTHER -> {<<"cid", 0>>}

\* serde_json::from_str / str::parse::<bool> on the callback's payload.
ParseOk(o, v) ==
  CASE o = "fetch" -> v = "manifest"
    [] o = "exists" -> v \in {"true", "false"}
    [] OTHER -> TRUE

\* The argument checks; the future and the buffers are created; node.ctx().
FeatureBegin(t) ==
  /\ UNCHANGED <<calls, histButBufs>>
  /\ pc[t] = "lock" /\ op[t] \in Features
  /\ IF Invalid(op[t], arg[t])
       THEN /\ Finish(t, "invalid_parameter", "none")
            /\ UNCHANGED bufs
       ELSE IF op[t] = "download_init" /\ ~arg[t].options
         THEN /\ Finish(t, "options_error", "none")
              /\ UNCHANGED bufs
         ELSE /\ InnerFree(handle[t])
              /\ bufs' = [bufs EXCEPT ![t] =
                            Allocate(@, FeatureBuffers(op[t], arg[t]))]
              /\ cptr' = [cptr EXCEPT ![t] = ctx[handle[t]]]
              /\ bridge' = [bridge EXCEPT ![t] = Unresolved]
              /\ pc' = [pc EXCEPT ![t] = "call"]
              /\ UNCHANGED <<result, value>>
  /\ UNCHANGED <<op, handle, lineage, ctx, started, refs, inner, glock,
                 inNative, sent, pending, nextCtx>>

\* The native function is called, under no lock.
FeatureCall(t) ==
  /\ UNCHANGED <<calls, hist>>
  /\ pc[t] = "call" /\ op[t] \in Features
  /\ inNative' = [inNative EXCEPT ![t] = op[t]]
  /\ pc' = [pc EXCEPT ![t] = "native"]
  /\ UNCHANGED <<op, result, value, handle, lineage, ctx, started, refs,
                 inner, glock, cptr, bridge, sent, pending, nextCtx>>

\* The native function returns; the clean-up; the status.
FeatureNative(t) ==
  /\ UNCHANGED <<calls, histButBufs>>
  /\ pc[t] = "native" /\ op[t] \in Features
  /\ inNative' = [inNative EXCEPT ![t] = "none"]
  /\ bufs' = [bufs EXCEPT ![t] = Release(@, FeatureFreed(op[t], arg[t]))]
  /\ \E status \in {0, 1} :
       IF Rejected(status)
         THEN /\ Finish(t, "call_rejected", "none")
              /\ UNCHANGED pending
         ELSE /\ pending' = pending \cup Registered(t, op[t], status)
              /\ pc' = [pc EXCEPT ![t] = "await"]
              /\ UNCHANGED <<result, value, bridge, cptr>>
  /\ UNCHANGED <<op, handle, lineage, ctx, started, refs, inner, glock, sent,
                 nextCtx>>

\* future.await? returns; fetch and exists parse the payload.
FeatureAwait(t) ==
  /\ UNCHANGED <<calls, hist>>
  /\ pc[t] = "await" /\ op[t] \in Features
  /\ ThreadFree(t)
  /\ Resolved(t)
  /\ IF bridge[t].st # "ok"
       THEN Finish(t, "native_failure", "none")
       ELSE IF ParseOk(op[t], bridge[t].val)
         THEN Finish(t, "ok", bridge[t].val)
         ELSE Finish(t, "library_error", "none")
  /\ UNCHANGED <<op, handle, lineage, ctx, started, refs, inner, glock,
                 inNative, sent, pending, nextCtx>>

(***************************************************************************)
(* connect_to_multiple (src/p2p/connection.rs): a loop of connect calls,   *)
(* each awaited, whose results are pushed to a vector.                     *)
(***************************************************************************)
\* Faulty variant: the loop ends at the first failed attempt.
MultiDoneOnError(rs, peers) ==
  Len(rs) = Len(peers) \/ \E i \in 1..Len(rs) : rs[i] # "ok"

\* `for (peer_id, addresses) in peer_connections`: the loop ends when the
\* list is exhausted.
MultiDone(rs, peers) == Len(rs) = Len(peers)

\* results.push(result); the next turn of the loop.
MultiPush(t, r) ==
  /\ results' = [results EXCEPT ![t] = Append(@, r)]
  /\ bridge' = [bridge EXCEPT ![t] = NoBridge]
  /\ cptr' = [cptr EXCEPT ![t] = Null]
  /\ pc' = [pc EXCEPT ![t] = "loop"]
  /\ UNCHANGED <<result, value>>

\* The head of the loop: return the results, or begin connect on the next
\* pair: its argument checks, its future and buffers, node.ctx().
MultiNext(t) ==
  /\ UNCHANGED <<calls, destroyed, fired, writes, notified, handled, chunk,
                 arg, trans>>
  /\ pc[t] = "loop" /\ op[t] = "connect_to_multiple"
  /\ IF MultiDone(results[t], arg[t].peers)
       THEN /\ Finish(t, "ok", results[t])
            /\ UNCHANGED <<results, bufs>>
       ELSE LET pair == arg[t].peers[Len(results[t]) + 1] IN
            IF Invalid("connect", pair)
              THEN /\ MultiPush(t, "invalid_parameter")
                   /\ UNCHANGED bufs
              ELSE /\ InnerFree(handle[t])
                   /\ bufs' = [bufs EXCEPT ![t] =
                                 Allocate(NoBufs, FeatureBuffers("connect", pair))]
                   /\ cptr' = [cptr EXCEPT ![t] = ctx[handle[t]]]
                   /\ bridge' = [bridge EXCEPT ![t] = Unresolved]
                   /\ pc' = [pc EXCEPT ![t] = "loop_call"]
                   /\ UNCHANGED <<result, value, results>>
  /\ UNCHANGED <<op, handle, lineage, ctx, started, refs, inner, glock,
                 inNative, sent, pending, nextCtx>>

\* codex_connect(node.ctx(), ..) is called, under no lock.
MultiCall(t) ==
  /\ UNCHANGED <<calls, hist>>
  /\ pc[t] = "loop_call" /\ op[t] = "connect_to_multiple"
  /\ inNative' = [inNative EXCEPT ![t] = "connect"]
  /\ pc' = [pc EXCEPT ![t] = "loop_native"]
  /\ UNCHANGED <<op, result, value, handle, lineage, ctx, started, refs,
                 inner, glock, cptr, bridge, sent, pending, nextCtx>>

\* codex_connect returns; the clean-up; the status.
MultiNative(t) ==
  /\ UNCHANGED <<calls, destroyed, fired, writes, notified, handled, chunk,
                 arg, trans>>
  /\ pc[t] = "loop_native" /\ op[t] = "connect_to_multiple"
  /\ inNative' = [inNative EXCEPT ![t] = "none"]
  /\ bufs' = [bufs EXCEPT ![t] = Release(@, DOMAIN @)]
  /\ \E status \in {0, 1} :
       IF Rejected(status)
         THEN /\ MultiPush(t, "call_rejected")
              /\ UNCHANGED pending
         ELSE /\ pending' = pending \cup Registered(t, "connect", status)
              /\ pc' = [pc EXCEPT ![t] = "loop_await"]
              /\ UNCHANGED <<result, value, bridge, cptr, results>>
  /\ UNCHANGED <<op, handle, lineage, ctx, started, refs, inner, glock, sent,
                 nextCtx>>

\* connect(..).await returns: future.await? of connect, then the push.
MultiAwait(t) ==
  /\ UNCHANGED <<calls, destroyed, fired, writes, notified, handled, chunk,
                 arg, bufs, trans>>
  /\ pc[t] = "loop_await" /\ op[t] = "connect_to_multiple"
  /\ ThreadFree(t)
  /\ Resolved(t)
  /\ MultiPush(t, IF bridge[t].st = "ok" THEN "ok" ELSE "native_failure")
  /\ UNCHANGED <<op, handle, lineage, ctx, started, refs, inner, glock,
                 inNative, sent, pending, nextCtx>>

(***************************************************************************)
(* validate_peer_id (src/p2p/connection.rs)                                *)
(***************************************************************************)
MinPeerIdLen == 10

MaxPeerIdLen == 100

\* `peer_id.len() < 10`
TooShort(n) == n < MinPeerIdLen

\* Faulty variant: a peer id of the greatest length is refused.
TooLongInclusive(n) == n >= MaxPeerIdLen

\* `peer_id.len() > 100`
TooLong(n) == n > MaxPeerIdLen

\* str::starts_with
StartsWith(s, p) == Len(s) >= Len(p) /\ SubSeq(s, 1, Len(p)) = p

\* valid_prefixes.iter().any(|&prefix| peer_id.starts_with(prefix))
HasValidPrefix(s) == \E p \in ValidPrefixes : StartsWith(s, p)

InvalidParameter(msg) == [kind |-> "invalid_parameter", msg |-> msg]

validate_peer_id(s) ==
  IF IsEmpty(s) THEN InvalidParameter("Peer ID cannot be empty")
  ELSE IF TooShort(Len(s)) THEN InvalidParameter("Peer ID is too short")
  ELSE IF TooLong(Len(s)) THEN InvalidParameter("Peer ID is too long")
  ELSE IF ~HasValidPrefix(s)
    THEN InvalidParameter("Peer ID has invalid format or prefix")
  ELSE [kind |-> "ok", msg |-> "none"]

\* A task calls validate_peer_id on its argument.
ValidatePeerId(t) ==
  /\ UNCHANGED <<calls, hist>>
  /\ pc[t] = "validate" /\ op[t] = "validate_peer_id"
  /\ LET r == validate_peer_id(arg[t].peer_id) IN Finish(t, r.kind, r.msg)
  /\ UNCHANGED <<op, handle, lineage, ctx, started, refs, inner, glock,
                 inNative, sent, pending, nextCtx>>

(***************************************************************************)
(* validate_addresses (src/p2p/connection.rs)                              *)
(***************************************************************************)
\* Faulty variant: the marker is looked for at the start only.
ContainsAtStart(s, p) == Len(s) >= Len(p) /\ SubSeq(s, 1, Len(p)) = p

\* str::contains
Contains(s, p) ==
  \E i \in 1..(Len(s) - Len(p) + 1) : SubSeq(s, i, i + Len(p) - 1) = p

\* valid_protocols.iter().any(|&protocol| address.contains(protocol))
HasValidProtocol(s) == \E p \in ValidProtocols : Contains(s, p)

\* What the loop body finds wrong with one address, or "none".
AddressFault(s) ==
  IF IsEmpty(s) THEN "Address cannot be empty"
  ELSE IF s[1] # "/" THEN "Address must start with '/'"
  ELSE IF ~HasValidProtocol(s) THEN "Address contains invalid protocol"
  ELSE "none"

\* The error validate_addresses returns for the address at index i (counted
\* from 0), or for the whole list (index -1).
AddressError(i, msg) ==
  [kind |-> "invalid_parameter", index |-> i, msg |-> msg]

\* The loop over addresses.iter().enumerate(), from position i on.
RECURSIVE CheckAddresses(_, _)
CheckAddresses(a, i) ==
  IF i > Len(a) THEN [kind |-> "ok", index |-> -1, msg |-> "none"]
  ELSE IF AddressFault(a[i]) # "none"
    THEN AddressError(i - 1, AddressFault(a[i]))
  ELSE CheckAddresses(a, i + 1)

validate_addresses(a) ==
  IF IsEmpty(a) THEN AddressError(-1, "At least one address must be provided")
  ELSE CheckAddresses(a, 1)

\* A task calls validate_addresses on its argument.
ValidateAddresses(t) ==
  /\ UNCHANGED <<calls, hist>>
  /\ pc[t] = "validate" /\ op[t] = "validate_addresses"
  /\ LET r == validate_addresses(arg[t].addresses)
     IN  Finish(t, r.kind, [index |-> r.index, msg |-> r.msg])
  /\ UNCHANGED <<op, handle, lineage, ctx, started, refs, inner, glock,
                 inNative, sent, pending, nextCtx>>

(***************************************************************************)
(* The whole program: any task calls any operation, at any time.  The      *)
(* engine answers every accepted call with one terminal callback; progress *)
(* notifications and repeated callbacks are explored under SpecBridge.     *)
(***************************************************************************)
Next ==
  \/ \E t \in Tasks : \E o \in Ops : Call(t, o)
  \/ \E t \in Tasks : NewBegin(t)
  \/ \E t \in Tasks : NewNative(t)
  \/ \E t \in Tasks : NewWait(t)
  \/ \E t \in Tasks : StartBegin(t)
  \/ \E t \in Tasks : StartNative(t)
  \/ \E t \in Tasks : StartWait(t)
  \/ \E t \in Tasks : StartAwait(t)
  \/ \E t \in Tasks : StopBegin(t)
  \/ \E t \in Tasks : StopNative(t)
  \/ \E t \in Tasks : StopAwait(t)
  \/ \E t \in Tasks : GetterBegin(t)
  \/ \E t \in Tasks : GetterNative(t)
  \/ \E t \in Tasks : GetterWait(t)
  \/ \E t \in Tasks : IsStarted(t)
  \/ \E t \in Tasks : \E u \in Tasks : Clone(t, u)
  \/ \E t \in Tasks : DestroyCheck(t)
  \/ \E t \in Tasks : DestroyBegin(t)
  \/ \E t \in Tasks : DestroyCloseNative(t)
  \/ \E t \in Tasks : DestroyWait(t)
  \/ \E t \in Tasks : DestroyNative(t)
  \/ \E t \in Tasks : DropCheck(t)
  \/ \E t \in Tasks : DropBegin(t)
  \/ \E t \in Tasks : DropStopNative(t)
  \/ \E t \in Tasks : DropDestroyNative(t)
  \/ \E t \in Tasks : DropRelease(t)
  \/ \E t \in Tasks : ChunkCtx(t)
  \/ \E t \in Tasks : ChunkCall(t)
  \/ \E t \in Tasks : ChunkNative(t)
  \/ \E t \in Tasks : ChunkAwait(t)
  \/ \E p \in pending : EngineCallback(p)

Spec == Init /\ [][Next]_vars

(***************************************************************************)
(* Concurrent getters on one started node: every task holds a clone of the *)
(* same started handle and calls getters; the engine fires the callback of *)
(* every call it accepted.                                                 *)
(***************************************************************************)
InitGetters ==
  /\ pc = [t \in Tasks |-> "idle"]
  /\ op = [t \in Tasks |-> "none"]
  /\ result = [t \in Tasks |-> "none"]
  /\ value = [t \in Tasks |-> "none"]
  /\ handle = [t \in Tasks |-> 1]
  /\ lineage = [t \in Tasks |-> 1]
  /\ ctx = [c \in Cells |-> IF c = 1 THEN 1 ELSE Null]
  /\ started = [c \in Cells |-> c = 1]
  /\ refs = [c \in Cells |-> IF c = 1 THEN Cardinality(Tasks) ELSE 0]
  /\ inner = [c \in Cells |-> Null]
  /\ glock = Null
  /\ inNative = [t \in Tasks |-> "none"]
  /\ cptr = [t \in Tasks |-> Null]
  /\ bridge = [t \in Tasks |-> NoBridge]
  /\ sent = [t \in Tasks |-> NoBridge]
  /\ pending = {}
  /\ nextCtx = 2
  /\ calls = 0
  /\ destroyed = [c \in Cells |-> 0]
  /\ fired = [t \in Tasks |-> 0]
  /\ writes = [t \in Tasks |-> 0]
  /\ notified = [t \in Tasks |-> <<>>]
  /\ handled = [t \in Tasks |-> <<>>]
  /\ chunk = [t \in Tasks |-> <<>>]
  /\ arg = [t \in Tasks |-> NoArg]
  /\ bufs = [t \in Tasks |-> NoBufs]
  /\ trans = [c \in Cells |-> IF started[c] THEN <<"start">> ELSE <<>>]
  /\ results = [t \in Tasks |-> <<>>]

GetterCall(t) == \E g \in Getters : Call(t, g)

EngineFires == \E p \in pending : EngineCallback(p)

NextGetters ==
  \/ \E t \in Tasks : GetterCall(t)
  \/ \E t \in Tasks : GetterBegin(t)
  \/ \E t \in Tasks : GetterNative(t)
  \/ \E t \in Tasks : GetterWait(t)
  \/ EngineFires

\* Threads keep running and the engine fires every accepted call's callback.
SpecGetters ==
  /\ InitGetters
  /\ [][NextGetters]_vars
  /\ \A t \in Tasks : WF_vars(GetterBegin(t))
  /\ \A t \in Tasks : WF_vars(GetterNative(t))
  /\ \A t \in Tasks : WF_vars(GetterWait(t))
  /\ WF_vars(EngineFires)

(***************************************************************************)
(* The callback futures under every callback sequence: the two tasks of    *)
(* one thread hold clones of a started handle and call getters and         *)
(* download_chunk; the engine emits progress notifications for             *)
(* download_chunk, fires the terminal callback of every call it accepted,  *)
(* and may fire a terminal callback again while the call's future is still *)
(* waited on.                                                              *)
(***************************************************************************)
InitBridge ==
  /\ pc = [t \in Tasks |-> "idle"]
  /\ op = [t \in Tasks |-> "none"]
  /\ result = [t \in Tasks |-> "none"]
  /\ value = [t \in Tasks |-> "none"]
  /\ handle = [t \in Tasks |-> IF t = 3 THEN Null ELSE 1]
  /\ lineage = handle
  /\ ctx = [c \in Cells |-> IF c = 1 THEN 1 ELSE Null]
  /\ started = [c \in Cells |-> c = 1]
  /\ refs = [c \in Cells |-> IF c = 1 THEN 2 ELSE 0]
  /\ inner = [c \in Cells |-> Null]
  /\ glock = Null
  /\ inNative = [t \in Tasks |-> "none"]
  /\ cptr = [t \in Tasks |-> Null]
  /\ bridge = [t \in Tasks |-> NoBridge]
  /\ sent = [t \in Tasks |-> NoBridge]
  /\ pending = {}
  /\ nextCtx = 2
  /\ calls = 0
  /\ destroyed = [c \in Cells |-> 0]
  /\ fired = [t \in Tasks |-> 0]
  /\ writes = [t \in Tasks |-> 0]
  /\ notified = [t \in Tasks |-> <<>>]
  /\ handled = [t \in Tasks |-> <<>>]
  /\ chunk = [t \in Tasks |-> <<>>]
  /\ arg = [t \in Tasks |-> NoArg]
  /\ bufs = [t \in Tasks |-> NoBufs]
  /\ trans = [c \in Cells |-> IF started[c] THEN <<"start">> ELSE <<>>]
  /\ results = [t \in Tasks |-> <<>>]

BridgeCall(t) == \E o \in Getters \cup {"download_chunk"} : Call(t, o)

\* A duplicate terminal callback for a call whose future is already resolved.
EngineDuplicate(t) ==
  /\ pc[t] \in {"wait", "await"}
  /\ Resolved(t)
  /\ fired' = [fired EXCEPT ![t] = 2]
  /\ \E st \in {"ok", "fail"} : \E v \in Payloads(op[t]) :
       LET r == [st |-> st, val |-> IF st = "ok" THEN v ELSE "none"] IN
       /\ bridge' = [bridge EXCEPT ![t] = Resolve(@, r)]
       /\ writes' = [writes EXCEPT ![t] =
                       IF Written(bridge[t], r) THEN @ + 1 ELSE @]
  /\ UNCHANGED <<pc, op, result, value, handle, lineage, ctx, started, refs,
                 inner, glock, inNative, cptr, sent, pending, nextCtx, calls,
                 destroyed, notified, handled, chunk, arg, bufs, trans,
                 results>>

EngineNotifies == \E p \in pending : EngineProgress(p)

NextBridge ==
  \/ \E t \in Tasks : BridgeCall(t)
  \/ \E t \in Tasks : GetterBegin(t)
  \/ \E t \in Tasks : GetterNative(t)
  \/ \E t \in Tasks : GetterWait(t)
  \/ \E t \in Tasks : ChunkCtx(t)
  \/ \E t \in Tasks : ChunkCall(t)
  \/ \E t \in Tasks : ChunkNative(t)
  \/ \E t \in Tasks : ChunkAwait(t)
  \/ \E t \in Tasks : EngineDuplicate(t)
  \/ EngineNotifies
  \/ EngineFires

\* The next step of task t inside a getter or download_chunk.
BridgeStep(t) ==
  \/ GetterBegin(t) \/ GetterNative(t) \/ GetterWait(t)
  \/ ChunkCtx(t) \/ ChunkCall(t) \/ ChunkNative(t) \/ ChunkAwait(t)

\* Threads keep running, resumable tasks are resumed and the engine fires
\* the terminal callback of every accepted call.
SpecBridge ==
  /\ InitBridge
  /\ [][NextBridge]_vars
  /\ \A t \in Tasks : WF_vars(BridgeStep(t))
  /\ WF_vars(EngineFires)

(***************************************************************************)
(* The blocking and the asynchronous forms side by side: two nodes in the  *)
(* same state, each owned by one thread; the threads call start and stop   *)
(* in either form.                                                         *)
(***************************************************************************)
InitForms ==
  /\ pc = [t \in Tasks |-> "idle"]
  /\ op = [t \in Tasks |-> "none"]
  /\ result = [t \in Tasks |-> "none"]
  /\ value = [t \in Tasks |-> "none"]
  /\ handle = [t \in Tasks |-> IF t = 1 THEN 1 ELSE IF t = 3 THEN 2 ELSE Null]
  /\ lineage = handle
  /\ ctx = [c \in Cells |-> IF c <= 2 THEN c ELSE Null]
  /\ \E s \in BOOLEAN : started = [c \in Cells |-> c <= 2 /\ s]
  /\ refs = [c \in Cells |-> IF c <= 2 THEN 1 ELSE 0]
  /\ inner = [c \in Cells |-> Null]
  /\ glock = Null
  /\ inNative = [t \in Tasks |-> "none"]
  /\ cptr = [t \in Tasks |-> Null]
  /\ bridge = [t \in Tasks |-> NoBridge]
  /\ sent = [t \in Tasks |-> NoBridge]
  /\ pending = {}
  /\ nextCtx = 3
  /\ calls = 0
  /\ destroyed = [c \in Cells |-> 0]
  /\ fired = [t \in Tasks |-> 0]
  /\ writes = [t \in Tasks |-> 0]
  /\ notified = [t \in Tasks |-> <<>>]
  /\ handled = [t \in Tasks |-> <<>>]
  /\ chunk = [t \in Tasks |-> <<>>]
  /\ arg = [t \in Tasks |-> NoArg]
  /\ bufs = [t \in Tasks |-> NoBufs]
  /\ trans = [c \in Cells |-> IF started[c] THEN <<"start">> ELSE <<>>]
  /\ results = [t \in Tasks |-> <<>>]

FormsCall(t) ==
  \E o \in {"start", "start_async", "stop", "stop_async"} : Call(t, o)

NextForms ==
  \/ \E t \in Tasks : FormsCall(t)
  \/ \E t \in Tasks : StartBegin(t)
  \/ \E t \in Tasks : StartNative(t)
  \/ \E t \in Tasks : StartWait(t)
  \/ \E t \in Tasks : StartAwait(t)
  \/ \E t \in Tasks : StopBegin(t)
  \/ \E t \in Tasks : StopNative(t)
  \/ \E t \in Tasks : StopAwait(t)
  \/ EngineFires

SpecForms == InitForms /\ [][NextForms]_vars

(***************************************************************************)
(* The feature callers: two tasks of one thread hold clones of the same    *)
(* started handle and call the download, storage and connect operations    *)
(* with valid and invalid arguments.                                       *)
(***************************************************************************)
FeaturesCall(t) == \E o \in Features \cup {"download_chunk"} : Call(t, o)

NextFeatures ==
  \/ \E t \in Tasks : FeaturesCall(t)
  \/ \E t \in Tasks : FeatureBegin(t)
  \/ \E t \in Tasks : FeatureCall(t)
  \/ \E t \in Tasks : FeatureNative(t)
  \/ \E t \in Tasks : FeatureAwait(t)
  \/ \E t \in Tasks : ChunkCtx(t)
  \/ \E t \in Tasks : ChunkCall(t)
  \/ \E t \in Tasks : ChunkNative(t)
  \/ \E t \in Tasks : ChunkAwait(t)
  \/ EngineFires

SpecFeatures == InitBridge /\ [][NextFeatures]_vars

(***************************************************************************)
(* download_chunk alone: two tasks of one thread hold clones of the same   *)
(* started handle and download chunks; the engine's progress notifications *)
(* carry one of two different chunks, or none.                             *)
(***************************************************************************)
ChunkCalled(t) == Call(t, "download_chunk")

EngineNotifiesChunk == \E p \in pending : EngineProgressOf(p, TwoChunks)

NextChunk ==
  \/ \E t \in Tasks : ChunkCalled(t)
  \/ \E t \in Tasks : ChunkCtx(t)
  \/ \E t \in Tasks : ChunkCall(t)
  \/ \E t \in Tasks : ChunkNative(t)
  \/ \E t \in Tasks : ChunkAwait(t)
  \/ EngineNotifiesChunk
  \/ EngineFires

SpecChunk == InitBridge /\ [][NextChunk]_vars

(***************************************************************************)
(* connect_to_multiple: two tasks of one thread hold clones of the same    *)
(* started handle and connect to lists of peers.                           *)
(***************************************************************************)
MultiCalled(t) == Call(t, "connect_to_multiple")

NextMulti ==
  \/ \E t \in Tasks : MultiCalled(t)
  \/ \E t \in Tasks : MultiNext(t)
  \/ \E t \in Tasks : MultiCall(t)
  \/ \E t \in Tasks : MultiNative(t)
  \/ \E t \in Tasks : MultiAwait(t)
  \/ EngineFires

SpecMulti == InitBridge /\ [][NextMulti]_vars

(***************************************************************************)
(* validate_peer_id applied to every peer id of PeerIds.                   *)
(***************************************************************************)
PeerIdCall == Call(1, "validate_peer_id")

NextPeerId ==
  \/ PeerIdCall
  \/ ValidatePeerId(1)

SpecPeerId == Init /\ [][NextPeerId]_vars

(***************************************************************************)
(* validate_addresses applied to every address list of AddressInputs.      *)
(***************************************************************************)
AddressesCall == Call(1, "validate_addresses")

NextAddresses ==
  \/ AddressesCall
  \/ ValidateAddresses(1)

SpecAddresses == Init /\ [][NextAddresses]_vars

(***************************************************************************)
(* The claims                                                              *)
(***************************************************************************)

\* C1: in every reachable state at most one native engine function is
\* executing, across all handles and all operations.
NativeMutualExclusion ==
  Cardinality({t \in Tasks : inNative[t] # "none"}) <= 1

\* C2: no operation waits for its completion callback while it holds the
\* global call serializer.
NoWaitUnderGlobalLock ==
  \A t \in Tasks : glock = t => pc[t] \notin {"wait", "await"}

\* The result of task t's getter is the outcome of its own call: the payload
\* its own callback delivered, the failure it reported, or the rejection.
OwnOutcome(t) ==
  \/ result[t] = "ok" /\ sent[t].st = "ok" /\ value[t] = sent[t].val
  \/ result[t] = "native_failure" /\ sent[t].st = "fail"
  \/ result[t] = "call_rejected" /\ sent[t].st = "none"

\* C3: every getter called concurrently on the same started node eventually
\* returns, and returns the outcome of its own call (its own callback's
\* payload when the engine accepted the call and reported success).
GettersReturnOwnResult ==
  \A t \in Tasks : (pc[t] = "lock") ~> (pc[t] = "idle" /\ OwnOutcome(t))

\* C3 witness: all three tasks have returned successfully from getters on
\* the shared node, and not all with the same payload.
GettersAllReturned ==
  /\ \A t \in Tasks : pc[t] = "idle" /\ op[t] \in Getters /\ result[t] = "ok"
  /\ \E t, u \in Tasks : value[t] # value[u]

\* C4: no interleaving of tasks on one executor thread deadlocks: a task is
\* never blocked, keeping the thread, on a handle lock held by a task that is
\* suspended on the same thread (which can then never be resumed).
CooperativeSuspension ==
  \A t, u \in Tasks :
    ~ /\ t # u
      /\ Executor(t) = Executor(u)
      /\ pc[u] = "await" /\ op[u] \in {"start_async", "stop_async"}
      /\ pc[t] = "lock"
      /\ inner[handle[t]] = u

\* C5: CodexNode::new returns an error and no handle, or a handle with a
\* non-null context whose is_started() is false.
NewReturnsStoppedHandle ==
  [][\A t \in Tasks :
       (op[t] = "new" /\ pc[t] # "idle" /\ pc'[t] = "idle") =>
         \/ result'[t] # "ok" /\ handle'[t] = Null
         \/ /\ result'[t] = "ok"
            /\ handle'[t] # Null
            /\ ctx'[handle'[t]] # Null
            /\ ~started'[handle'[t]]]_vars

\* C5 witness: new() has returned a handle.
NewReturnedHandle ==
  \E t \in Tasks :
    /\ op[t] = "new" /\ pc[t] = "idle" /\ result[t] = "ok"
    /\ handle[t] # Null /\ ctx[handle[t]] # Null /\ ~IsStartedValue(t)

\* C6: stop() and stop_async() on a handle whose started flag is false
\* return a state error, issue no native call and leave the flag false.
StopWhenNotStarted ==
  [][\A t \in Tasks :
       (/\ op[t] \in {"stop", "stop_async"}
        /\ pc[t] = "lock" /\ pc'[t] # "lock"
        /\ ~started[handle[t]]) =>
         /\ pc'[t] = "idle" /\ result'[t] = "state_error"
         /\ inNative' = inNative /\ pending' = pending
         /\ ~started'[handle[t]]]_vars

\* C6 witness: a stop on a handle that is not started was refused.
StopRefused ==
  \E t \in Tasks :
    /\ op[t] \in {"stop", "stop_async"} /\ pc[t] = "idle"
    /\ result[t] = "state_error" /\ ~started[handle[t]]

\* C7: start() and start_async() on a handle whose started flag is true
\* return a state error, issue no native call and leave the flag true.
StartWhenStarted ==
  [][\A t \in Tasks :
       (/\ op[t] \in {"start", "start_async"}
        /\ pc[t] = "lock" /\ pc'[t] # "lock"
        /\ started[handle[t]]) =>
         /\ pc'[t] = "idle" /\ result'[t] = "state_error"
         /\ inNative' = inNative /\ pending' = pending
         /\ started'[handle[t]]]_vars

\* C7 witness: a start on a started handle was refused.
StartRefused ==
  \E t \in Tasks :
    /\ op[t] \in {"start", "start_async"} /\ pc[t] = "idle"
    /\ result[t] = "state_error" /\ started[handle[t]]

\* C8: all clones of a handle point to the same shared state: they see the
\* same context, and is_started() reads the same flag through each of them.
ClonesShareState ==
  \A t, u \in Tasks :
    (lineage[t] # Null /\ lineage[t] = lineage[u]) =>
      /\ ctx[handle[t]] = ctx[handle[u]]
      /\ IsStartedValue(t) = IsStartedValue(u)

\* C8 witness: the node was started through one clone and is_started()
\* through another clone has returned true.
StartSeenThroughClone ==
  \E t, u \in Tasks :
    /\ t # u /\ lineage[t] # Null /\ lineage[t] = lineage[u]
    /\ op[t] \in {"start", "start_async"} /\ pc[t] = "idle" /\ result[t] = "ok"
    /\ op[u] = "is_started" /\ pc[u] = "idle" /\ value[u] = "true"

\* C9: while another reference to the node is live, destroy() returns a
\* state error, issues no native call and changes neither the context
\* pointer nor the started flag.
DestroySharedRefused ==
  [][\A t \in Tasks :
       (/\ op[t] = "destroy" /\ pc'[t] # pc[t]
        /\ handle[t] # Null /\ refs[handle[t]] > 1) =>
         /\ pc[t] = "check" => (pc'[t] = "drop" /\ result'[t] = "state_error")
         /\ inNative' = inNative
         /\ ctx' = ctx /\ started' = started]_vars

\* C9 witness: destroy() on a stopped node with two references has been
\* refused and the other reference is still live.
DestroyRefusedWhileShared ==
  \E t \in Tasks :
    /\ op[t] = "destroy" /\ pc[t] = "drop" /\ result[t] = "state_error"
    /\ refs[handle[t]] > 1 /\ ~started[handle[t]] /\ ctx[handle[t]] # Null

\* C10: a native destroy call runs only while the started flag is false and
\* the caller holds the only reference, on the destroy() path and on the
\* drop path.
DestroyOnlyStoppedSoleOwner ==
  \A t \in Tasks :
    inNative[t] = "destroy" =>
      ~started[handle[t]] /\ refs[handle[t]] = 1

\* C10 witness: the drop of the last reference is inside native destroy.
DropPathDestroys ==
  \E t \in Tasks :
    inNative[t] = "destroy" /\ pc[t] = "drop_destroy" /\ op[t] = "drop"

\* C11: destroy() on a sole-owner, stopped handle issues native close, waits
\* for its callback, and issues native destroy and then nulls the context
\* pointer only after that callback reported success; when close is rejected
\* or its callback reports failure, destroy() returns an error and has itself
\* issued no native destroy call.
DestroyOrdering ==
  [][\A t \in Tasks :
       (op[t] = "destroy" /\ handle[t] # Null) =>
         /\ (pc'[t] = "wait" /\ pc[t] # "wait") =>
              (pc[t] = "native" /\ inNative[t] = "close")
         /\ (pc'[t] = "destroy_native" /\ pc[t] # "destroy_native") =>
              /\ pc[t] = "wait" /\ fired[t] = 1 /\ sent[t].st = "ok"
              /\ inNative'[t] = "destroy"
              /\ ctx'[handle[t]] = ctx[handle[t]] /\ ctx[handle[t]] # Null
         /\ (pc[t] \in {"check", "lock", "native", "wait", "destroy_native"}
             /\ ctx'[handle[t]] # ctx[handle[t]]) =>
              /\ pc[t] = "destroy_native" /\ inNative[t] = "destroy"
              /\ ctx'[handle[t]] = Null
         /\ (pc[t] \in {"native", "wait"} /\ pc'[t] = "drop") =>
              /\ result'[t] \in {"call_rejected", "native_failure"}
              /\ pc[t] = "wait" => sent[t].st = "fail"
              /\ destroyed' = destroyed /\ destroyed[ctx[handle[t]]] = 0
              /\ ctx' = ctx]_vars

\* C11 witness: destroy() has closed and destroyed the node and nulled the
\* context pointer.
DestroyCompleted ==
  \E t \in Tasks :
    /\ op[t] = "destroy" /\ pc[t] = "drop" /\ result[t] = "ok"
    /\ sent[t].st = "ok" /\ ctx[handle[t]] = Null /\ destroyed[handle[t]] = 1

\* C12: native destroy is called at most once on every context, under every
\* interleaving of destroy(), clones and drops of clones.
NoDoubleFree == \A c \in Cells : destroyed[c] <= 1

\* C12 witness: a node that had two references was destroyed once and both
\* references are gone.
DestroyedOnceAfterClones ==
  \E t, u \in Tasks :
    /\ t # u /\ pc[t] = "idle" /\ pc[u] = "idle"
    /\ op[t] = "drop" /\ op[u] \in {"drop", "destroy"}
    /\ \E c \in Cells : destroyed[c] = 1 /\ refs[c] = 0 /\ ctx[c] = Null

\* C13: once every reference to a node has been dropped without an explicit
\* destroy(), native destroy has been called on the node's context.
NoLeakAfterLastDrop ==
  \A c \in Cells : (refs[c] = 0 /\ ctx[c] # Null) => destroyed[c] >= 1

\* C14: start, start_async, stop and stop_async change the started flag only
\* after the completion callback of their accepted native call has reported
\* success.
FlagFlipsAfterSuccess ==
  [][\A t \in Tasks :
       (/\ op[t] \in {"start", "start_async", "stop", "stop_async"}
        /\ handle[t] # Null /\ inner[handle[t]] = t
        /\ started'[handle[t]] # started[handle[t]]) =>
         sent[t].st = "ok"]_vars

\* C15: from the same handle state and the same engine response, start() and
\* start_async() return the same result and leave the same started flag, and
\* so do stop() and stop_async().
FormsEquivalent ==
  \A t, u \in Tasks :
    (/\ calls = 2 /\ pending = {}
     /\ pc[t] = "idle" /\ pc[u] = "idle"
     /\ <<op[t], op[u]>> \in {<<"start", "start_async">>,
                              <<"stop", "stop_async">>}
     /\ sent[t] = sent[u]) =>
      /\ result[t] = result[u]
      /\ started[handle[t]] = started[handle[u]]

\* Task t is between the state check and the flag update of a transition.
InTransition(t) ==
  /\ op[t] \in {"start", "start_async", "stop", "stop_async", "destroy"}
  /\ pc[t] \in {"native", "wait", "await", "destroy_native"}

\* C16: at most one start/stop/destroy on a node, through any of its clones,
\* is between its state check and its flag update, and the flag it checked
\* is still the flag of the node, so native start is issued only on a node
\* that is not started and native stop only on a started one.
TransitionsExclusive ==
  /\ \A c \in Cells :
       Cardinality({t \in Tasks : handle[t] = c /\ InTransition(t)}) <= 1
  /\ \A t \in Tasks :
       InTransition(t) =>
         /\ inner[handle[t]] = t
         /\ started[handle[t]] = (op[t] \in {"stop", "stop_async"})

\* C16 witness: a start through one clone is in flight while a start through
\* another clone waits for the handle's lock.
ConcurrentStartsSerialized ==
  \E t, u \in Tasks :
    /\ t # u /\ handle[t] # Null /\ handle[t] = handle[u]
    /\ op[t] \in {"start", "start_async"} /\ InTransition(t)
    /\ op[u] \in {"start", "start_async"} /\ pc[u] = "lock"

\* C17: a getter does not hold the handle's lock during its native call and
\* its wait.
GettersReleaseLock ==
  \A t \in Tasks :
    (op[t] \in Getters /\ pc[t] \in {"native", "wait"}) =>
      inner[handle[t]] # t

\* C18: the result slot of a future is written at most once; a second
\* terminal resolution neither overwrites it nor changes what the waiter
\* gets, which is the first resolution.
SingleAssignment ==
  [][\A t \in Tasks :
       /\ writes'[t] <= 1
       /\ (bridge[t].st \in {"ok", "fail"} /\ bridge'[t].st # "none") =>
            bridge'[t] = bridge[t]
       /\ (pc[t] \in {"wait", "await"} /\ pc'[t] = "idle") =>
            /\ sent[t].st = "ok" =>
                 /\ result'[t] = "ok"
                 /\ op[t] \in Getters => value'[t] = sent[t].val
            /\ sent[t].st = "fail" => result'[t] = "native_failure"]_vars

\* C18 witness: a future was resolved twice and its waiter has returned the
\* first resolution.
ResolvedTwice ==
  \E t \in Tasks :
    /\ fired[t] >= 2 /\ writes[t] = 1
    /\ op[t] \in Getters /\ pc[t] = "idle"
    /\ result[t] = "ok" /\ value[t] = sent[t].val

\* C19: a wait, blocking or asynchronous, returns only once the future holds
\* a terminal status, and returns that outcome: the payload on success, an
\* error on failure; and once a waited-on future is resolved the waiter
\* eventually returns.
WaitReturnsResolution ==
  /\ [][\A t \in Tasks :
          (pc[t] \in {"wait", "await"} /\ pc'[t] = "idle") =>
            /\ bridge[t].st \in {"ok", "fail"}
            /\ bridge[t].st = "ok" =>
                 /\ result'[t] = "ok"
                 /\ op[t] \in Getters => value'[t] = bridge[t].val
            /\ bridge[t].st = "fail" =>
                 result'[t] = "native_failure" /\ value'[t] = "none"]_vars
  /\ \A t \in Tasks :
       (pc[t] \in {"wait", "await"} /\ bridge[t].st \in {"ok", "fail"})
         ~> (pc[t] = "idle")

\* C19 witness: a blocking wait has returned the payload of its success
\* callback and an asynchronous wait has returned the error of its failure
\* callback.
WaitsReturned ==
  \E t, u \in Tasks :
    /\ pc[t] = "idle" /\ op[t] \in Getters /\ result[t] = "ok"
    /\ sent[t].st = "ok" /\ value[t] = sent[t].val
    /\ pc[u] = "idle" /\ op[u] = "download_chunk"
    /\ result[u] = "native_failure" /\ sent[u].st = "fail"

\* C20: for a download_chunk future, whose progress callback is attached
\* before the call, the callback is invoked once per progress notification,
\* in order, with the notification's payload; a progress notification never
\* resolves the future; and the waiter receives the terminal resolution.
ProgressStreaming ==
  [][\A t \in Tasks :
       op[t] = "download_chunk" =>
         /\ handled'[t] = notified'[t]
         /\ Len(notified'[t]) > Len(notified[t]) => bridge'[t] = bridge[t]
         /\ (pc[t] = "await" /\ pc'[t] = "idle") =>
              /\ bridge[t] = sent[t]
              /\ bridge[t].st = "ok" => bridge[t].val = "done"]_vars

\* C20 witness: two different progress payloads went to the progress callback
\* and the future was then resolved with the terminal payload.
ProgressDelivered ==
  \E t \in Tasks :
    /\ op[t] = "download_chunk" /\ pc[t] = "await"
    /\ Len(handled[t]) >= 2 /\ handled[t][1] # handled[t][2]
    /\ handled[t] = notified[t]
    /\ bridge[t] = [st |-> "ok", val |-> "done"]

\* C21: for every accepted native call whose terminal callback has not fired
\* yet, the call's future is still alive: no callback is left to run against
\* a future its operation has already released.
BridgeOutlivesCallback == \A p \in pending : ~p.orphan

\* The operations that validate their arguments before anything else.
Validating == Features \cup {"download_chunk"}

\* Task t's operation was called with an empty cid, or connect with an empty
\* peer id or no address.
EmptyArgument(t) ==
  IF op[t] = "connect"
    THEN arg[t].peer_id = <<>> \/ arg[t].addresses = <<>>
    ELSE arg[t].cid = <<>>

\* C22: a feature caller called with an empty cid, and connect called with
\* an empty peer id or an empty address list, returns an invalid-parameter
\* error in its first step: no native call is issued, no future is created,
\* no callback becomes pending and no buffer is allocated.
InvalidBeforeNative ==
  [][\A t \in Tasks :
       (op[t] \in Validating /\ EmptyArgument(t) /\ pc[t] # "idle"
          /\ pc'[t] # pc[t]) =>
         /\ pc'[t] = "idle" /\ result'[t] = "invalid_parameter"
         /\ inNative' = inNative
         /\ bridge' = bridge
         /\ bufs' = bufs
         /\ pending' = pending]_vars

\* C22 witness: connect was refused for its empty address list and
\* download_init for its empty cid.
InvalidRefused ==
  \E t, u \in Tasks :
    /\ op[t] = "connect" /\ pc[t] = "idle"
    /\ arg[t].peer_id # <<>> /\ arg[t].addresses = <<>>
    /\ result[t] = "invalid_parameter"
    /\ op[u] = "download_init" /\ pc[u] = "idle"
    /\ arg[u].cid = <<>> /\ result[u] = "invalid_parameter"

\* C23: when the native function returns a non-zero status (codex_new: a null
\* context) the operation returns the call-rejected error in that step: it
\* does not wait, no callback is pending for it, and the started flag and
\* the context pointer are as before; an operation that goes on to wait has
\* a callback pending.
RejectedReturnsAtOnce ==
  [][\A t \in Tasks :
       /\ (result'[t] = "call_rejected" /\ result[t] # "call_rejected") =>
            /\ pc[t] = "native" /\ pc'[t] \in {"idle", "drop"}
            /\ bridge'[t] = NoBridge
            /\ pending' = pending
            /\ started' = started /\ ctx' = ctx
       /\ (pc[t] = "native" /\ pc'[t] \in {"wait", "await"}) =>
            \E p \in pending' \ pending : p.by = t /\ ~p.orphan]_vars

\* C23 witness: start() was rejected by the engine; the handle is still
\* stopped and has its context.
RejectedReturned ==
  \E t \in Tasks :
    /\ op[t] = "start" /\ pc[t] = "idle" /\ result[t] = "call_rejected"
    /\ handle[t] # Null /\ ctx[handle[t]] # Null /\ ~started[handle[t]]

\* C24: no native buffer is released twice, and once an operation has
\* returned every buffer it got from string_to_c_string has been released.
BuffersReleasedOnce ==
  \A t \in Tasks : \A b \in DOMAIN bufs[t] :
    /\ bufs[t][b] <= 1
    /\ pc[t] = "idle" => bufs[t][b] = 1

\* C25: when CodexNode::new returns an error, the context the native creation
\* call handed out, if any, has been destroyed.
FailedNewLeaksNothing ==
  [][\A t \in Tasks :
       (op[t] = "new" /\ pc[t] # "idle" /\ pc'[t] = "idle"
          /\ result'[t] # "ok" /\ cptr[t] # Null) =>
         destroyed'[cptr[t]] >= 1]_vars

\* C26: the handle of every task that is not inside an operation has a
\* non-null context that was never passed to codex_destroy, and every native
\* call on a context is issued with a non-null pointer to a context that was
\* not destroyed before (codex_destroy itself: destroyed by this call only).
NoUseAfterDestroy ==
  /\ \A t \in Tasks :
       (handle[t] # Null /\ pc[t] = "idle") =>
         /\ ctx[handle[t]] # Null
         /\ destroyed[ctx[handle[t]]] = 0
  /\ \A t \in Tasks :
       inNative[t] \notin {"none", "new"} =>
         /\ cptr[t] # Null
         /\ destroyed[cptr[t]] = IF inNative[t] = "destroy" THEN 1 ELSE 0

\* C26 witness: a clone of the handle was dropped and a feature call is then
\* executing on the live context through the remaining handle.
CallAfterCloneDropped ==
  \E t, u \in Tasks :
    /\ inNative[t] = "download_chunk"
    /\ handle[t] # Null /\ cptr[t] = ctx[handle[t]]
    /\ op[u] = "drop" /\ pc[u] = "idle" /\ result[u] = "ok"

\* C27: the started flag of a handle goes from false to true only in a start
\* (start, start_async) and from true to false only in a stop (stop,
\* stop_async, or the native stop of the last handle's teardown);
\* is_started() returns the flag in one step that issues no native call and
\* changes nothing; the getters, clone and the feature callers leave every
\* flag and every context pointer as they are.
FlagChangesOnlyByTransitions ==
  [][/\ \A c \in Cells :
          started'[c] # started[c] =>
            \E t \in Tasks :
              /\ handle[t] = c /\ pc[t] # "idle"
              /\ IF started'[c]
                   THEN op[t] \in {"start", "start_async"}
                   ELSE op[t] \in {"stop", "stop_async"} \/ pc[t] = "drop_stop"
     /\ \A t \in Tasks :
          (op[t] \in Getters \cup {"is_started"} \cup Validating
             /\ pc[t] # "idle" /\ pc'[t] # pc[t]) =>
            started' = started /\ ctx' = ctx
     /\ \A t \in Tasks :
          (op[t] = "is_started" /\ pc[t] # "idle" /\ pc'[t] # pc[t]) =>
            /\ pc'[t] = "idle"
            /\ value'[t] = IF started[handle[t]] THEN "true" ELSE "false"
            /\ inNative' = inNative /\ pending' = pending
            /\ refs' = refs /\ inner' = inner
     /\ (\E c \in Cells : refs[c] >= 1 /\ refs'[c] > refs[c]) =>
          started' = started /\ ctx' = ctx]_vars

\* C27 witness: is_started() has returned true on a started handle that a
\* clone shares.
IsStartedRead ==
  \E t \in Tasks :
    /\ op[t] = "is_started" /\ pc[t] = "idle" /\ value[t] = "true"
    /\ started[handle[t]] /\ refs[handle[t]] = 2

\* C28: a getter proceeds from the lock to its native call whatever the
\* started flag is, and returns the callback's payload, or the call-rejected
\* error straight from the native call, or the error of a failure callback.
GettersNeedNoStart ==
  [][\A t \in Tasks :
       op[t] \in Getters =>
         /\ (pc[t] = "lock" /\ pc'[t] # "lock") =>
              /\ pc'[t] = "native" /\ inNative'[t] = op[t]
              /\ cptr'[t] = ctx[handle[t]]
         /\ (pc[t] # "idle" /\ pc'[t] = "idle") =>
              \/ /\ result'[t] = "ok"
                 /\ sent[t].st = "ok" /\ value'[t] = sent[t].val
              \/ result'[t] = "call_rejected" /\ pc[t] = "native"
              \/ result'[t] = "native_failure" /\ sent[t].st = "fail"]_vars

\* C28 witness: a getter has returned the payload on a handle that was never
\* started.
GetterOnNeverStarted ==
  \E t \in Tasks :
    /\ op[t] \in Getters /\ pc[t] = "idle" /\ result[t] = "ok"
    /\ value[t] \in Vals
    /\ ~started[handle[t]] /\ trans[handle[t]] = <<>>

\* C29: after any sequence of start / stop calls that returned Ok the flag is
\* set exactly when the last of them was a start, the calls that returned Ok
\* alternate, and a start on a handle that is not started is never refused
\* by the state check.
StartStopAlternate ==
  /\ [](\A c \in Cells :
          /\ trans[c] # <<>> =>
               (started[c] <=> trans[c][Len(trans[c])] = "start")
          /\ \A i \in 1..(Len(trans[c]) - 1) : trans[c][i] # trans[c][i + 1])
  /\ [][\A t \in Tasks :
          (op[t] \in {"start", "start_async"} /\ pc[t] = "lock"
             /\ pc'[t] # "lock" /\ ~started[handle[t]]) =>
            pc'[t] = "native"]_vars

\* C29 witness: a handle was started, stopped and started again, each call
\* returning Ok.
StartedAgain ==
  \E c \in Cells :
    /\ trans[c] = <<"start", "stop", "start">>
    /\ started[c]

\* C30: validate_peer_id returns Ok exactly for a peer id of 10 to 100
\* characters that begins with 12D3KooW, Qm, bafy or bafk, and the
\* invalid-parameter error for every other one.
PeerIdAcceptedExactly ==
  \A t \in Tasks :
    (op[t] = "validate_peer_id" /\ pc[t] = "idle") =>
      LET s == arg[t].peer_id
          listed == \E p \in { <<"1", "2", "D", "3", "K", "o", "o", "W">>,
                                <<"Q", "m">>, <<"b", "a", "f", "y">>,
                                <<"b", "a", "f", "k">> } :
                      \A i \in 1..Len(p) : i <= Len(s) /\ s[i] = p[i]
      IN  /\ result[t] \in {"ok", "invalid_parameter"}
          /\ result[t] = "ok" <=> (Len(s) >= 10 /\ Len(s) <= 100 /\ listed)

\* C30 witness: a peer id of 100 characters with a listed prefix was accepted.
LongestPeerIdAccepted ==
  \E t \in Tasks :
    /\ op[t] = "validate_peer_id" /\ pc[t] = "idle" /\ result[t] = "ok"
    /\ Len(arg[t].peer_id) = 100

\* The first position of list a whose address is empty, does not begin with
\* a slash or holds none of the twelve markers; 0 if there is none.
FirstOffending(a) ==
  LET marker(s) ==
        \E p \in { <<"/", "i", "p", "4">>, <<"/", "i", "p", "6">>,
                    <<"/", "d", "n", "s", "4">>, <<"/", "d", "n", "s", "6">>,
                    <<"/", "d", "n", "s", "a", "d", "d", "r">>,
                    <<"/", "t", "c", "p">>, <<"/", "u", "d", "p">>,
                    <<"/", "q", "u", "i", "c">>, <<"/", "w", "s">>,
                    <<"/", "w", "s", "s">>, <<"/", "p", "2", "p">>,
                    <<"/", "i", "p", "f", "s">> } :
          \E k \in 0..Len(s) :
            \A j \in 1..Len(p) : k + j <= Len(s) /\ s[k + j] = p[j]
      bad(s) == s = <<>> \/ s[1] # "/" \/ ~marker(s)
      offending == {i \in 1..Len(a) : bad(a[i])}
  IN  IF offending = {} THEN 0
      ELSE CHOOSE i \in offending : \A j \in offending : i <= j

\* C31: validate_addresses returns Ok exactly for a non-empty list whose
\* addresses are all non-empty, begin with a slash and hold a listed marker;
\* otherwise it returns the invalid-parameter error, for a list with
\* addresses the one that names the index of the first offending address.
AddressesAcceptedExactly ==
  \A t \in Tasks :
    (op[t] = "validate_addresses" /\ pc[t] = "idle") =>
      LET a == arg[t].addresses IN
      /\ result[t] \in {"ok", "invalid_parameter"}
      /\ result[t] = "ok" <=> (a # <<>> /\ FirstOffending(a) = 0)
      /\ (result[t] # "ok" /\ a # <<>>) =>
           value[t].index = FirstOffending(a) - 1

\* C31 witness: a list was refused for its second address, whose marker is
\* missing, the first address holding its marker after another segment.
SecondAddressRefused ==
  \E t \in Tasks :
    /\ op[t] = "validate_addresses" /\ pc[t] = "idle"
    /\ result[t] = "invalid_parameter" /\ value[t].index = 1
    /\ arg[t].addresses = << <<"/", "x", "/", "t", "c", "p">>, <<"/", "x">> >>

\* Where a task is inside Drop::drop.
DropSteps == {"drop", "drop_lock", "drop_stop", "drop_destroy", "drop_release"}

\* C32: when the last reference to a node is released, its context has been
\* passed to codex_destroy and is null; the cleanup, holding the handle's
\* lock, calls codex_stop first exactly when the context is non-null and the
\* flag is set, clears the flag, then calls codex_destroy, then nulls the
\* context; with a null context it calls nothing; no step of it creates a
\* future, leaves a callback pending, waits, or changes what the caller gets
\* (a plain drop reports no error).
TeardownOrder ==
  [][\A t \in Tasks :
       (pc[t] \in DropSteps /\ pc'[t] # pc[t]) =>
         LET c == handle[t] IN
         /\ pc[t] = "drop_lock" =>
              IF ctx[c] = Null
                THEN /\ pc'[t] = "drop_release"
                     /\ inNative' = inNative /\ destroyed' = destroyed
              ELSE IF started[c]
                THEN /\ pc'[t] = "drop_stop" /\ inNative'[t] = "stop"
                     /\ destroyed' = destroyed
                ELSE /\ pc'[t] = "drop_destroy" /\ inNative'[t] = "destroy"
                     /\ destroyed'[ctx[c]] = destroyed[ctx[c]] + 1
         /\ pc[t] = "drop_stop" =>
              /\ ~started'[c]
              /\ pc'[t] = "drop_destroy" /\ inNative'[t] = "destroy"
              /\ destroyed'[ctx[c]] = destroyed[ctx[c]] + 1
         /\ pc[t] = "drop_destroy" =>
              /\ ctx'[c] = Null /\ inNative'[t] = "none"
              /\ pc'[t] = "drop_release"
         /\ (pc[t] = "drop_release" /\ refs[c] = 1) =>
              ctx'[c] = Null /\ destroyed'[lineage[t]] >= 1
         /\ pc[t] # "drop_destroy" => ctx' = ctx
         /\ pc[t] # "drop_stop" => started' = started
         /\ bridge'[t] = NoBridge /\ pending' = pending
         /\ pc'[t] \in DropSteps \cup {"idle"}
         /\ op[t] = "drop" => result'[t] \in {"none", "ok"}
         /\ op[t] # "drop" => result'[t] = result[t]]_vars

\* C33: when destroy() called on a sole owner has returned and the consumed
\* handle is released, whatever it returns, codex_destroy was called exactly
\* once on the context, the context pointer is null and the flag is clear.
DestroyAlwaysTearsDown ==
  [][\A t \in Tasks :
       (op[t] = "destroy" /\ pc[t] = "drop_release" /\ pc'[t] = "idle"
          /\ value[t] # "Cannot destroy: multiple references exist") =>
         /\ ctx'[handle[t]] = Null
         /\ ~started'[handle[t]]
         /\ destroyed'[lineage[t]] = 1
         /\ result'[t] \in {"ok", "state_error", "call_rejected",
                             "native_failure"}]_vars

\* C33 witness: destroy() of a sole owner has returned the error of the close
\* callback, and the node was destroyed by the drop of the consumed handle.
DestroyFailedNodeGone ==
  \E t \in Tasks : \E c \in Cells :
    /\ op[t] = "destroy" /\ pc[t] = "idle" /\ result[t] = "native_failure"
    /\ destroyed[c] = 1 /\ ctx[c] = Null /\ refs[c] = 0


\* The attempts of connect_to_multiple in task t that are under way: its
\* native call and the callbacks it still waits for.
AttemptsUnderWay(t) ==
  (IF inNative[t] = "connect" THEN 1 ELSE 0)
    + Cardinality({p \in pending : p.by = t})

\* The pair of the list refused by connect's argument checks.
RefusedPair(pair) == Len(pair.peer_id) = 0 \/ Len(pair.addresses) = 0

RECURSIVE ChunksOf(_)
ChunksOf(s) ==
  IF Len(s) = 0 THEN <<>>
  ELSE IF s[Len(s)] = "nil" THEN ChunksOf(SubSeq(s, 1, Len(s) - 1))
  ELSE Append(ChunksOf(SubSeq(s, 1, Len(s) - 1)), s[Len(s)])

\* C35: download_chunk returns Ok exactly when its future was resolved with
\* success, and then the bytes of the last progress notification that
\* carried a chunk, or no bytes when none carried one; a refused argument, a
\* rejected call and a failure callback return an error and no data.
ChunkIsLastNotified ==
  [][\A t \in Tasks :
       (op[t] = "download_chunk" /\ pc[t] # "idle" /\ pc'[t] = "idle") =>
         LET cs == ChunksOf(notified[t])
         IN /\ result'[t] = "ok" <=> (pc[t] = "await" /\ sent[t].st = "ok")
            /\ IF result'[t] = "ok"
                 THEN value'[t] = IF Len(cs) = 0 THEN <<>> ELSE <<cs[Len(cs)]>>
                 ELSE value'[t] = "none"]_vars

\* C35 witness: a download_chunk call whose notifications carried two
\* different chunks returned the second one.
SecondChunkReturned ==
  \E t \in Tasks :
    /\ op[t] = "download_chunk" /\ pc[t] = "idle"
    /\ notified[t] = <<"a", "b">>
    /\ result[t] = "ok" /\ value[t] = <<"b">>
====
